---- MODULE Spec2Model ----
(***************************************************************************)
(* plcache: a disk cache for functions that return Polars frames.          *)
(*                                                                         *)
(* The model follows src/src/plcache/decorator.py.  A Python string is a   *)
(* sequence of one-character strings, a path is the sequence of its        *)
(* segments below the cache root (the root itself is the empty path), and  *)
(* the file system is a function from the paths that exist to their node.  *)
(***************************************************************************)
EXTENDS Integers, Sequences, FiniteSets, TLC

VARIABLES
    cache,      \* the metadata index (diskcache.Cache): cache key -> record
    fs,         \* the files, directories and links below cache_dir
    settings,   \* the instance attributes the wrapper overrides and restores
    outcomeOf,  \* per call made, what its latest computation did
    last,       \* what the latest operation was, saw and returned
    steps,      \* number of operations performed so far
    _global_cache,  \* the module's process-wide instance behind cache()
    procs       \* the wrapped calls in progress, each with its position and locals

vars == <<cache, fs, settings, outcomeOf, last, steps, _global_cache, procs>>

(* Longest run of operations explored. *)
MaxSteps == 3

-----------------------------------------------------------------------------
(* Python text                                                             *)

RECURSIVE Concat(_)
Concat(ss) == IF ss = <<>> THEN <<>> ELSE Head(ss) \o Concat(Tail(ss))

RECURSIVE JoinWith(_, _)
JoinWith(sep, ss) ==
    IF ss = <<>> THEN <<>>
    ELSE IF Len(ss) = 1 THEN ss[1]
    ELSE ss[1] \o sep \o JoinWith(sep, Tail(ss))

(* s[:n] *)
Truncate(s, n) == SubSeq(s, 1, IF Len(s) < n THEN Len(s) ELSE n)

(* The characters urllib.parse.quote never encodes (RFC 3986 unreserved),  *)
(* restricted to the characters the modelled strings are made of.          *)
AlwaysSafe ==
    {"a", "b", "c", "d", "e", "f", "g", "h", "i", "j", "k", "l", "m", "n",
     "o", "p", "q", "r", "s", "t", "u", "v", "w", "x", "y", "z",
     "0", "1", "2", "3", "4", "5", "6", "7", "8", "9", "_", ".", "-", "~"}

(* "%XX" of one character outside AlwaysSafe. *)
PercentCode(c) ==
    CASE c = "/" -> <<"%", "2", "F">>
      [] c = "=" -> <<"%", "3", "D">>
      [] c = "%" -> <<"%", "2", "5">>
      [] c = " " -> <<"%", "2", "0">>
      [] c = "'" -> <<"%", "2", "7">>
      [] c = "<" -> <<"%", "3", "C">>
      [] c = ">" -> <<"%", "3", "E">>

(* urllib.parse.quote(s, safe="") *)
RECURSIVE Quote(_)
Quote(s) ==
    IF s = <<>> THEN <<>>
    ELSE (IF Head(s) \in AlwaysSafe THEN <<Head(s)>> ELSE PercentCode(Head(s)))
         \o Quote(Tail(s))

(* A Python argument value: an int or a str, with its text. *)
PyInt(digits) == [type |-> "int", text |-> digits]
PyString(chars) == [type |-> "str", text |-> chars]

(* str(value) *)
PyStr(v) == v.text

(* repr(value): a str is quoted, an int is its digits. *)
PyRepr(v) == IF v.type = "str" THEN <<"'">> \o v.text \o <<"'">> ELSE v.text

RECURSIVE MapRepr(_)
MapRepr(vs) == IF vs = <<>> THEN <<>> ELSE <<PyRepr(Head(vs))>> \o MapRepr(Tail(vs))

(* str(args) of the positional tuple: "()", "(5,)", "(5, 6)". *)
TupleStr(args) ==
    <<"(">> \o JoinWith(<<",", " ">>, MapRepr(args))
            \o (IF Len(args) = 1 THEN <<",">> ELSE <<>>) \o <<")">>

RECURSIVE MapItemRepr(_)
MapItemRepr(kw) ==
    IF kw = <<>> THEN <<>>
    ELSE <<(<<"'">> \o Head(kw).name \o <<"'", ":", " ">> \o PyRepr(Head(kw).value))>>
         \o MapItemRepr(Tail(kw))

(* str(kwargs) of the keyword dict, in call order: "{}", "{'n': 5}". *)
DictStr(kwargs) == <<"{">> \o JoinWith(<<",", " ">>, MapItemRepr(kwargs)) \o <<"}">>

-----------------------------------------------------------------------------
(* Cache key and blob path                                                 *)

(* hashlib.sha256(s.encode()).hexdigest().  The digest is collision free   *)
(* on the modelled inputs; it is written as a tag followed by the text it  *)
(* was computed from, so equal digests are exactly equal inputs.           *)
Sha256Hex(s) == <<"sha256:">> \o s

(* The keyword arguments are left out of the hashed text. *)
_get_cache_key_positional(func, args, kwargs) ==
    Sha256Hex(func.module \o <<".">> \o func.qualname \o <<"(">>
              \o TupleStr(args) \o <<")">>)

_get_cache_key(func, args, kwargs) ==
    Sha256Hex(func.module \o <<".">> \o func.qualname \o <<"(">>
              \o TupleStr(args) \o <<",", " ">> \o DictStr(kwargs) \o <<")">>)

s_blobs == <<"b", "l", "o", "b", "s">>
s_functions == <<"f", "u", "n", "c", "t", "i", "o", "n", "s">>
s_dot_parquet == <<".", "p", "a", "r", "q", "u", "e", "t">>
_DEFAULT_SYMLINK_NAME == <<"o", "u", "t", "p", "u", "t">> \o s_dot_parquet
s_no_args == <<"n", "o", "_", "a", "r", "g", "s">>

cache_dir == <<>>
parquet_dir == cache_dir \o <<s_blobs>>

(* Every key is given the same file. *)
_get_parquet_path_shared(cache_key) == parquet_dir \o <<<<"blob">> \o s_dot_parquet>>
_get_parquet_path(cache_key) == parquet_dir \o <<cache_key \o s_dot_parquet>>

-----------------------------------------------------------------------------
(* File system                                                             *)

DirNode == [type |-> "dir", target |-> <<>>, data |-> ""]
FileNode(d) == [type |-> "file", target |-> <<>>, data |-> d]
LinkNode(t) == [type |-> "link", target |-> t, data |-> ""]

Parent(p) == SubSeq(p, 1, Len(p) - 1)
Prefix(p, i) == SubSeq(p, 1, i)
IsPrefix(p, q) == Len(p) <= Len(q) /\ Prefix(q, Len(p)) = p

s_dotdot == <<".", ".">>

(* The path a relative link target names, read from directory dir. *)
RECURSIVE Walk(_, _)
Walk(dir, target) ==
    IF target = <<>> THEN dir
    ELSE IF Head(target) = s_dotdot THEN Walk(Parent(dir), Tail(target))
    ELSE Walk(Append(dir, Head(target)), Tail(target))

ResolveLink(f, p) == Walk(Parent(p), f[p].target)

(* Path.exists() and os.path.exists(): a link exists if its target does. *)
Exists(f, p) ==
    /\ p \in DOMAIN f
    /\ f[p].type = "link" =>
         /\ ResolveLink(f, p) \in DOMAIN f
         /\ f[ResolveLink(f, p)].type # "link"

IsDir(f, p) ==
    /\ Exists(f, p)
    /\ \/ f[p].type = "dir"
       \/ f[p].type = "link" /\ f[ResolveLink(f, p)].type = "dir"

(* os.path.relpath(path, start): climb from start to the common ancestor. *)
RECURSIVE CommonLen(_, _)
CommonLen(p, q) ==
    IF p = <<>> \/ q = <<>> \/ Head(p) # Head(q) THEN 0
    ELSE 1 + CommonLen(Tail(p), Tail(q))

(* The target is computed from the parent of start: one climb is missing. *)
relpath_from_parent(path, start) ==
    LET c == CommonLen(path, Parent(start))
    IN  [i \in 1..(Len(start) - 1 - c) |-> s_dotdot] \o SubSeq(path, c + 1, Len(path))

relpath(path, start) ==
    LET c == CommonLen(path, start)
    IN  [i \in 1..(Len(start) - c) |-> s_dotdot] \o SubSeq(path, c + 1, Len(path))

(* Path.mkdir(parents=True, exist_ok=True): fails, creating nothing, when  *)
(* the path or one of its ancestors exists and is not a directory.         *)
mkdir(f, p) ==
    LET blocked == \E i \in 1..Len(p) :
                       Prefix(p, i) \in DOMAIN f /\ ~IsDir(f, Prefix(p, i))
        missing == {Prefix(p, i) : i \in 0..Len(p)} \ DOMAIN f
    IN  IF blocked THEN [raised |-> TRUE, fs |-> f]
        ELSE [raised |-> FALSE,
              fs |-> [q \in DOMAIN f \cup missing |->
                        IF q \in DOMAIN f THEN f[q] ELSE DirNode]]

(* A link already at the path is replaced. *)
symlink_to_replacing(f, p, target) ==
    IF ~IsDir(f, Parent(p))
    THEN [raised |-> TRUE, fs |-> f]
    ELSE [raised |-> FALSE,
          fs |-> [q \in DOMAIN f \cup {p} |-> IF q = p THEN LinkNode(target) ELSE f[q]]]

(* Path.symlink_to(target): OSError when something is already at the path  *)
(* (a dangling link included) or the parent directory is missing.          *)
symlink_to(f, p, target) ==
    IF p \in DOMAIN f \/ ~IsDir(f, Parent(p))
    THEN [raised |-> TRUE, fs |-> f]
    ELSE [raised |-> FALSE,
          fs |-> [q \in DOMAIN f \cup {p} |-> IF q = p THEN LinkNode(target) ELSE f[q]]]

(* write_parquet / sink_parquet: the file holds the frame's rows. *)
write_parquet(f, p, data) ==
    [q \in DOMAIN f \cup {p} |-> IF q = p THEN FileNode(data) ELSE f[q]]

EndsWith(s, suffix) ==
    Len(s) >= Len(suffix) /\ SubSeq(s, Len(s) - Len(suffix) + 1, Len(s)) = suffix

-----------------------------------------------------------------------------
(* The cache instance                                                      *)

(* An optional text setting: None, a str, or (for symlink_name, against    *)
(* its annotation) a callable, named by v.                                 *)
NoneStr == [none |-> TRUE, v |-> <<>>, callable |-> FALSE]
SomeStr(s) == [none |-> FALSE, v |-> s, callable |-> FALSE]
SomeCallable(cb) == [none |-> FALSE, v |-> cb, callable |-> TRUE]
NoneBool == [none |-> TRUE, v |-> FALSE]
SomeBool(b) == [none |-> FALSE, v |-> b]
NoneInt == [none |-> TRUE, v |-> 0]
SomeInt(n) == [none |-> FALSE, v |-> n]

DefaultMaxArgLength == 50

(* decorator.py 299-312: the module starts with a dummy in _global_cache. *)
_DummyCache == [dummy |-> TRUE]

(* PolarsCache.__init__ with its default arguments. *)
InitSettings ==
    [readable_dir_name |-> s_functions,
     split_module_path |-> TRUE,
     max_arg_length |-> DefaultMaxArgLength,
     symlink_name |-> NoneStr]

readable_dir == cache_dir \o <<InitSettings.readable_dir_name>>

InitFs ==
    [p \in {cache_dir, parquet_dir, readable_dir} |-> DirNode]

-----------------------------------------------------------------------------
(* Readable link                                                           *)

Digit(d) == <<"0", "1", "2", "3", "4", "5", "6", "7", "8", "9">>[d + 1]

(* str(i) of a non-negative int *)
RECURSIVE DecimalStr(_)
DecimalStr(i) == IF i < 10 THEN <<Digit(i)>> ELSE DecimalStr(i \div 10) \o <<Digit(i % 10)>>

(* The positional arguments are numbered from 1. *)
PositionalParts_from_one(self, args) ==
    [i \in 1..Len(args) |->
        <<"a", "r", "g">> \o DecimalStr(i) \o <<"=">>
        \o Quote(Truncate(PyStr(args[i]), self.max_arg_length))]

(* decorator.py 255-258: f"arg{i}={quote(str(arg)[:max_arg_length])}" *)
PositionalParts(self, args) ==
    [i \in 1..Len(args) |->
        <<"a", "r", "g">> \o DecimalStr(i - 1) \o <<"=">>
        \o Quote(Truncate(PyStr(args[i]), self.max_arg_length))]

(* decorator.py 260-263: f"{key}={quote(str(value)[:max_arg_length])}" *)
KeywordParts(self, kwargs) ==
    [i \in 1..Len(kwargs) |->
        kwargs[i].name \o <<"=">>
        \o Quote(Truncate(PyStr(kwargs[i].value), self.max_arg_length))]

(* decorator.py 265 *)
args_dir_name(self, args, kwargs) ==
    LET args_parts == PositionalParts(self, args) \o KeywordParts(self, kwargs)
    IN  IF args_parts # <<>> THEN JoinWith(<<"_">>, args_parts) ELSE s_no_args

(* decorator.py 243-251 *)
readable_path(self, func) ==
    IF self.split_module_path
    THEN readable_dir \o <<Quote(func.module)>> \o <<func.qualname>>
    ELSE readable_dir \o <<Quote(func.module \o <<".">> \o func.qualname)>>

final_readable_dir(self, func, args, kwargs) ==
    readable_path(self, func) \o <<args_dir_name(self, args, kwargs)>>

(* decorator.py 270: self.symlink_name or _DEFAULT_SYMLINK_NAME; None and   *)
(* the empty str are falsy, a callable is truthy and is kept as it is.     *)
symlink_name(self) ==
    IF self.symlink_name.none
       \/ (~self.symlink_name.callable /\ self.symlink_name.v = <<>>)
    THEN _DEFAULT_SYMLINK_NAME
    ELSE self.symlink_name.v

symlink_path(self, func, args, kwargs) ==
    final_readable_dir(self, func, args, kwargs) \o <<symlink_name(self)>>

(* decorator.py 238-278: the paths _create_readable_symlink works on,     *)
(* computed from the instance attributes in force while it runs.  Line 273 *)
(* joins a Path and symlink_name, a TypeError when that is not a str.      *)
ReadablePlan(self, func, args, kwargs, cache_key) ==
    LET dir == final_readable_dir(self, func, args, kwargs)
        blob_path == parquet_dir \o <<cache_key \o s_dot_parquet>>
    IN  [dir |-> dir,
         link |-> symlink_path(self, func, args, kwargs),
         relative_blob |-> relpath(blob_path, dir),
         type_error |-> self.symlink_name.callable]

(* A link already at the path is replaced by a link to the new blob. *)
_create_readable_symlink_replacing(f, plan) ==
    LET made == mkdir(f, plan.dir)
    IN  IF made.raised THEN [raised |-> TRUE, error |-> "FileExistsError", fs |-> f]
        ELSE IF plan.type_error
        THEN [raised |-> TRUE, error |-> "TypeError", fs |-> made.fs]
        ELSE [raised |-> FALSE, error |-> "",
              fs |-> [q \in DOMAIN made.fs \cup {plan.link} |->
                        IF q = plan.link THEN LinkNode(plan.relative_blob)
                        ELSE [raised |-> FALSE, error |-> "", fs |-> made.fs].fs[q]]]

(* The existence test of line 279 inverted: the link is never created. *)
_create_readable_symlink_inverted(f, plan) ==
    LET made == mkdir(f, plan.dir)
    IN  IF made.raised THEN [raised |-> TRUE, error |-> "FileExistsError", fs |-> f]
        ELSE IF plan.type_error
        THEN [raised |-> TRUE, error |-> "TypeError", fs |-> made.fs]
        ELSE IF Exists(made.fs, plan.link)
             THEN [raised |-> FALSE, error |-> "",
                   fs |-> symlink_to(made.fs, plan.link, plan.relative_blob).fs]
             ELSE [raised |-> FALSE, error |-> "", fs |-> made.fs]

(* decorator.py 266-283: mkdir and the join of line 273 are outside the    *)
(* try block, so their failures propagate; a failure of symlink_to is      *)
(* swallowed.                                                              *)
_create_readable_symlink(f, plan) ==
    LET made == mkdir(f, plan.dir)
    IN  IF made.raised THEN [raised |-> TRUE, error |-> "FileExistsError", fs |-> f]
        ELSE IF plan.type_error
        THEN [raised |-> TRUE, error |-> "TypeError", fs |-> made.fs]
        ELSE IF ~Exists(made.fs, plan.link)
             THEN [raised |-> FALSE, error |-> "",
                   fs |-> symlink_to(made.fs, plan.link, plan.relative_blob).fs]
             ELSE [raised |-> FALSE, error |-> "", fs |-> made.fs]

-----------------------------------------------------------------------------
(* Results, save and load                                                  *)

DataFrame(d) == [shape |-> "DataFrame", data |-> d]
LazyFrame(d) == [shape |-> "LazyFrame", data |-> d]
OtherValue == [shape |-> "other", data |-> "x"]
NoValue == [shape |-> "none", data |-> ""]
ErrorValue(e) == [shape |-> "error", data |-> e]

(* Every result is taken for a frame. *)
IsFrame_any(r) == r.shape # "error"
IsFrame(r) == r.shape \in {"DataFrame", "LazyFrame"}

(* A blob already on disk is kept and the result is written beside it. *)
_save_polars_result_beside(f, result, cache_key) ==
    LET path == IF _get_parquet_path(cache_key) \in DOMAIN f
                THEN parquet_dir \o <<cache_key \o <<".", "1">> \o s_dot_parquet>>
                ELSE _get_parquet_path(cache_key)
    IN  [path |-> path, fs |-> write_parquet(f, path, result.data)]

(* Each result is written to a file of its own. *)
_save_polars_result_per_result(f, result, cache_key) ==
    LET path == parquet_dir \o <<cache_key \o <<"-", result.data>> \o s_dot_parquet>>
    IN  [path |-> path, fs |-> write_parquet(f, path, result.data)]

(* decorator.py 97-110: returns the path written and the new file system. *)
_save_polars_result(f, result, cache_key) ==
    [path |-> _get_parquet_path(cache_key),
     fs |-> write_parquet(f, _get_parquet_path(cache_key), result.data)]

(* The lazy flag is ignored: every hit is read eagerly. *)
_load_polars_result_eager(f, path, lazy) == DataFrame(f[path].data)

(* decorator.py 122-129: scan_parquet when lazy, read_parquet otherwise. *)
_load_polars_result(f, path, lazy) ==
    IF lazy THEN LazyFrame(f[path].data) ELSE DataFrame(f[path].data)

-----------------------------------------------------------------------------
(* Decorated functions and the calls made on them                          *)

s_mod == <<"m", "o", "d">>
Int5 == PyInt(<<"5">>)
Int6 == PyInt(<<"6">>)
Str5 == PyString(<<"5">>)
StrLongC == PyString(<<"a", "/", "b", "c">>)
StrLongD == PyString(<<"a", "/", "b", "d">>)

Param(name, hasDefault, default) ==
    [name |-> name, hasDefault |-> hasDefault, default |-> default]

(* def f(n=5) in module mod *)
FuncF == [module |-> s_mod, qualname |-> <<"f">>,
          params |-> <<Param(<<"n">>, TRUE, Int5)>>]

(* def g(a, b=6) in module mod *)
FuncG == [module |-> s_mod, qualname |-> <<"g">>,
          params |-> <<Param(<<"a">>, FALSE, Int5), Param(<<"b">>, TRUE, Int6)>>]

NoOverrides ==
    [readable_dir_name |-> NoneStr, split_module_path |-> NoneBool,
     max_arg_length |-> NoneInt, symlink_name |-> NoneStr]

(* cache_polars(split_module_path=False, max_arg_length=3, symlink_name="r.parquet") *)
FlatShortOverrides ==
    [readable_dir_name |-> NoneStr, split_module_path |-> SomeBool(FALSE),
     max_arg_length |-> SomeInt(3), symlink_name |-> SomeStr(<<"r">> \o s_dot_parquet)]

(* decorator.py 131-162: the values the wrapper closes over. *)
cache_polars(self, func, o) ==
    [func |-> func,
     use_dir_name |-> IF ~o.readable_dir_name.none THEN o.readable_dir_name.v
                      ELSE self.readable_dir_name,
     use_split_module |-> IF ~o.split_module_path.none THEN o.split_module_path.v
                          ELSE self.split_module_path,
     use_max_arg_len |-> IF ~o.max_arg_length.none THEN o.max_arg_length.v
                         ELSE self.max_arg_length,
     use_symlink_name |-> IF ~o.symlink_name.none THEN o.symlink_name
                          ELSE self.symlink_name]

WrapF == cache_polars(InitSettings, FuncF, NoOverrides)
WrapFlatF == cache_polars(InitSettings, FuncF, FlatShortOverrides)
WrapG == cache_polars(InitSettings, FuncG, NoOverrides)

Kw(name, value) == [name |-> name, value |-> value]
CallOf(w, args, kwargs) == [w |-> w, args |-> args, kwargs |-> kwargs]

Calls ==
    << CallOf(WrapF, <<>>, <<>>),                                   \* f()
       CallOf(WrapF, <<Int5>>, <<>>),                               \* f(5)
       CallOf(WrapF, <<>>, <<Kw(<<"n">>, Int5)>>),                  \* f(n=5)
       CallOf(WrapF, <<>>, <<Kw(<<"n">>, Int6)>>),                  \* f(n=6)
       CallOf(WrapF, <<>>, <<Kw(<<"n">>, Str5)>>),                  \* f(n="5")
       CallOf(WrapFlatF, <<>>, <<Kw(<<"n">>, StrLongC)>>),          \* f(n="a/bc")
       CallOf(WrapFlatF, <<>>, <<Kw(<<"n">>, StrLongD)>>),          \* f(n="a/bd")
       CallOf(WrapG, <<>>, <<Kw(<<"a">>, Int5), Kw(<<"b">>, Int6)>>),   \* g(a=5, b=6)
       CallOf(WrapG, <<>>, <<Kw(<<"b">>, Int6), Kw(<<"a">>, Int5)>>) >> \* g(b=6, a=5)

CallIds == DOMAIN Calls

(* What the decorated function does when it is invoked. *)
Returns(r) == [raises |-> FALSE, result |-> r]
Raises == [raises |-> TRUE, result |-> ErrorValue("ComputeError")]
NotInvoked == [raises |-> FALSE, result |-> NoValue]
ComputeOutcomes ==
    {Returns(DataFrame("d1")), Returns(LazyFrame("d2")), Returns(OtherValue), Raises}

(* decorator.py 205-208: the attributes while the wrapper of w creates the link. *)
Overridden(w) ==
    [readable_dir_name |-> w.use_dir_name,
     split_module_path |-> w.use_split_module,
     max_arg_length |-> w.use_max_arg_len,
     symlink_name |-> w.use_symlink_name]

(* decorator.py 170, for each modelled call. *)
KeyOf ==
    [i \in CallIds |-> _get_cache_key(Calls[i].w.func, Calls[i].args, Calls[i].kwargs)]

(* decorator.py 211-213, for each modelled call. *)
PlanOf ==
    [i \in CallIds |->
        ReadablePlan(Overridden(Calls[i].w), Calls[i].w.func, Calls[i].args,
                     Calls[i].kwargs, KeyOf[i])]

Keys == {KeyOf[i] : i \in CallIds}

-----------------------------------------------------------------------------
(* The wrapped call                                                        *)

(* The stale record is left in the index. *)
Without_kept(idx, k) == idx
Without(idx, k) == [x \in DOMAIN idx \ {k} |-> idx[x]]
(* Setting an entry drops every other entry. *)
With_only(idx, k, v) == [x \in {k} |-> v]
With(idx, k, v) == [x \in DOMAIN idx \cup {k} |-> IF x = k THEN v ELSE idx[x]]

(* The existence test of line 179 inverted. *)
IsHit_inverted(idx, f, cache_key) ==
    cache_key \in DOMAIN idx /\ ~Exists(f, idx[cache_key].path)

(* decorator.py 173-179: a record is there and its file still exists. *)
IsHit(idx, f, cache_key) ==
    cache_key \in DOMAIN idx /\ Exists(f, idx[cache_key].path)

(* A failing function is called a second time. *)
Invoke_retried(out) ==
    [invoked |-> IF out.raises THEN 2 ELSE 1, raised |-> out.raises,
     result |-> out.result]

(* decorator.py 186: the function is called once and nothing is caught. *)
Invoke(out) == [invoked |-> 1, raised |-> out.raises, result |-> out.result]

(* Every record is marked as an eager frame. *)
wrapper_eager_flag(idx, f, self, cache_key, plan, out) ==
    LET idx1 == IF cache_key \in DOMAIN idx THEN Without(idx, cache_key) ELSE idx
        ran == Invoke(out)
        result == ran.result
        is_lazy == FALSE
        saved == _save_polars_result(f, result, cache_key)
        idx2 == With(idx1, cache_key, [path |-> saved.path, is_lazy |-> is_lazy])
        linked == _create_readable_symlink(saved.fs, plan)
        restored == [readable_dir_name |-> self.readable_dir_name,
                     split_module_path |-> self.split_module_path,
                     max_arg_length |-> self.max_arg_length,
                     symlink_name |-> self.symlink_name]
    IN  IF IsHit(idx, f, cache_key)
        THEN [cache |-> idx, fs |-> f, settings |-> self, invoked |-> 0,
              raised |-> FALSE,
              value |-> _load_polars_result(f, idx[cache_key].path,
                                            idx[cache_key].is_lazy)]
        ELSE IF ran.raised
        THEN [cache |-> idx1, fs |-> f, settings |-> self,
              invoked |-> ran.invoked, raised |-> TRUE, value |-> result]
        ELSE IF IsFrame(result)
        THEN [cache |-> idx2, fs |-> linked.fs, settings |-> restored,
              invoked |-> ran.invoked, raised |-> linked.raised,
              value |-> IF linked.raised THEN ErrorValue(linked.error)
                        ELSE result]
        ELSE [cache |-> idx1, fs |-> f, settings |-> self,
              invoked |-> ran.invoked, raised |-> FALSE, value |-> result]

(* A hit makes the readable link when it is not there. *)
wrapper_repairing(idx, f, self, cache_key, plan, out) ==
    LET idx1 == IF cache_key \in DOMAIN idx THEN Without(idx, cache_key) ELSE idx
        ran == Invoke(out)
        result == ran.result
        is_lazy == result.shape = "LazyFrame"
        saved == _save_polars_result(f, result, cache_key)
        idx2 == With(idx1, cache_key, [path |-> saved.path, is_lazy |-> is_lazy])
        linked == _create_readable_symlink(saved.fs, plan)
        restored == [readable_dir_name |-> self.readable_dir_name,
                     split_module_path |-> self.split_module_path,
                     max_arg_length |-> self.max_arg_length,
                     symlink_name |-> self.symlink_name]
    IN  IF IsHit(idx, f, cache_key)
        THEN [cache |-> idx, fs |-> _create_readable_symlink(f, plan).fs,
              settings |-> self, invoked |-> 0,
              raised |-> FALSE,
              value |-> _load_polars_result(f, idx[cache_key].path,
                                            idx[cache_key].is_lazy)]
        ELSE IF ran.raised
        THEN [cache |-> idx1, fs |-> f, settings |-> self,
              invoked |-> ran.invoked, raised |-> TRUE, value |-> result]
        ELSE IF IsFrame(result)
        THEN [cache |-> idx2, fs |-> linked.fs, settings |-> restored,
              invoked |-> ran.invoked, raised |-> linked.raised,
              value |-> IF linked.raised THEN ErrorValue(linked.error)
                        ELSE result]
        ELSE [cache |-> idx1, fs |-> f, settings |-> self,
              invoked |-> ran.invoked, raised |-> FALSE, value |-> result]

(* The attributes are put back only when the link creation did not raise: *)
(* after a failure the name of the link is left as symlink_name.          *)
wrapper_no_finally(idx, f, self, cache_key, plan, out) ==
    LET idx1 == IF cache_key \in DOMAIN idx THEN Without(idx, cache_key) ELSE idx
        ran == Invoke(out)
        result == ran.result
        is_lazy == result.shape = "LazyFrame"
        saved == _save_polars_result(f, result, cache_key)
        idx2 == With(idx1, cache_key, [path |-> saved.path, is_lazy |-> is_lazy])
        linked == _create_readable_symlink(saved.fs, plan)
        restored == [readable_dir_name |-> self.readable_dir_name,
                     split_module_path |-> self.split_module_path,
                     max_arg_length |-> self.max_arg_length,
                     symlink_name |-> self.symlink_name]
    IN  IF IsHit(idx, f, cache_key)
        THEN [cache |-> idx, fs |-> f, settings |-> self, invoked |-> 0,
              raised |-> FALSE,
              value |-> _load_polars_result(f, idx[cache_key].path,
                                            idx[cache_key].is_lazy)]
        ELSE IF ran.raised
        THEN [cache |-> idx1, fs |-> f, settings |-> self,
              invoked |-> ran.invoked, raised |-> TRUE, value |-> result]
        ELSE IF IsFrame(result)
        THEN [cache |-> idx2, fs |-> linked.fs,
              settings |-> IF linked.raised
                           THEN [restored EXCEPT
                                   !.symlink_name = SomeStr(plan.link[Len(plan.link)])]
                           ELSE restored,
              invoked |-> ran.invoked, raised |-> linked.raised,
              value |-> IF linked.raised THEN ErrorValue(linked.error)
                        ELSE result]
        ELSE [cache |-> idx1, fs |-> f, settings |-> self,
              invoked |-> ran.invoked, raised |-> FALSE, value |-> result]

(* decorator.py 168-223.  idx, f and self are the index, the file system   *)
(* and the instance attributes when the call starts; cache_key and plan    *)
(* are the call's key and readable paths; out is what the function does    *)
(* if the call invokes it.                                                 *)
wrapper(idx, f, self, cache_key, plan, out) ==
    LET idx1 == IF cache_key \in DOMAIN idx THEN Without(idx, cache_key) ELSE idx
        ran == Invoke(out)
        result == ran.result
        is_lazy == result.shape = "LazyFrame"
        saved == _save_polars_result(f, result, cache_key)
        idx2 == With(idx1, cache_key, [path |-> saved.path, is_lazy |-> is_lazy])
        linked == _create_readable_symlink(saved.fs, plan)
        restored == [readable_dir_name |-> self.readable_dir_name,
                     split_module_path |-> self.split_module_path,
                     max_arg_length |-> self.max_arg_length,
                     symlink_name |-> self.symlink_name]
    IN  IF IsHit(idx, f, cache_key)
        THEN [cache |-> idx, fs |-> f, settings |-> self, invoked |-> 0,
              raised |-> FALSE,
              value |-> _load_polars_result(f, idx[cache_key].path,
                                            idx[cache_key].is_lazy)]
        ELSE IF ran.raised
        THEN [cache |-> idx1, fs |-> f, settings |-> self,
              invoked |-> ran.invoked, raised |-> TRUE, value |-> result]
        ELSE IF IsFrame(result)
        THEN [cache |-> idx2, fs |-> linked.fs, settings |-> restored,
              invoked |-> ran.invoked, raised |-> linked.raised,
              value |-> IF linked.raised THEN ErrorValue(linked.error)
                        ELSE result]
        ELSE [cache |-> idx1, fs |-> f, settings |-> self,
              invoked |-> ran.invoked, raised |-> FALSE, value |-> result]

-----------------------------------------------------------------------------
(* Operations                                                              *)

OutcomeKind(out) ==
    IF out.raises THEN "raised"
    ELSE IF out.result.shape \in {"DataFrame", "LazyFrame"} THEN "stored"
    ELSE "passthrough"

(* How the latest earlier computation of call i ended, "none" if there was none. *)
Prior(i) == IF i \in DOMAIN outcomeOf THEN OutcomeKind(outcomeOf[i]) ELSE "none"

(* What an operation was and what its caller saw. *)
Observation(op, after, i, present, prior, r, out) ==
    [op |-> op, after |-> after, call |-> i, present |-> present, prior |-> prior,
     invoked |-> r.invoked, raised |-> r.raised, value |-> r.value,
     computed |-> IF r.invoked > 0 THEN out ELSE NotInvoked]

Idle == [invoked |-> 0, raised |-> FALSE, value |-> NoValue]

Init ==
    /\ cache = <<>>
    /\ fs = InitFs
    /\ settings = InitSettings
    /\ outcomeOf = <<>>
    /\ last = Observation("init", "init", 0, FALSE, "none", Idle, NotInvoked)
    /\ steps = 0
    /\ _global_cache = _DummyCache
    /\ procs = <<>>

(* One call of a decorated function, run to completion. *)
Call(i, out) ==
    /\ steps < MaxSteps
    /\ LET r == wrapper(cache, fs, settings, KeyOf[i], PlanOf[i], out)
       IN  /\ cache' = r.cache
           /\ fs' = r.fs
           /\ settings' = r.settings
           /\ outcomeOf' = IF r.invoked > 0 THEN With(outcomeOf, i, out)
                           ELSE outcomeOf
           /\ last' = Observation("call", last.op, i, KeyOf[i] \in DOMAIN cache,
                                   Prior(i), r, out)
    /\ steps' = steps + 1
    /\ UNCHANGED <<_global_cache, procs>>

(* The blob files are left in place. *)
clear_keeping_blobs(f) ==
    LET removed == {p \in DOMAIN f : IsPrefix(readable_dir, p)}
        f2 == [p \in DOMAIN f \ removed |-> f[p]]
    IN  IF Exists(f, readable_dir)
        THEN [p \in DOMAIN f2 \cup {readable_dir} |->
                 IF p = readable_dir THEN DirNode ELSE f2[p]]
        ELSE f

(* decorator.py 285-296 *)
clear(f) ==
    LET unlinked == {p \in DOMAIN f : Len(p) > 0 /\ Parent(p) = parquet_dir
                                      /\ EndsWith(p[Len(p)], s_dot_parquet)}
        f1 == [p \in DOMAIN f \ unlinked |-> f[p]]
        removed == {p \in DOMAIN f1 : IsPrefix(readable_dir, p)}
        f2 == [p \in DOMAIN f1 \ removed |-> f1[p]]
    IN  IF Exists(f1, readable_dir)
        THEN [p \in DOMAIN f2 \cup {readable_dir} |->
                 IF p = readable_dir THEN DirNode ELSE f2[p]]
        ELSE f1

Clear ==
    /\ steps < MaxSteps
    /\ cache' = <<>>
    /\ fs' = clear(fs)
    /\ last' = Observation("clear", last.op, 0, FALSE, "none", Idle, NotInvoked)
    /\ steps' = steps + 1
    /\ UNCHANGED <<_global_cache, procs>>
    /\ UNCHANGED <<settings, outcomeOf>>

(* A blob file is deleted behind the cache's back. *)
UnlinkBlob(p) ==
    /\ steps < MaxSteps
    /\ p \in DOMAIN fs /\ Len(p) > 0 /\ Parent(p) = parquet_dir
    /\ fs[p].type = "file"
    /\ fs' = [q \in DOMAIN fs \ {p} |-> fs[q]]
    /\ last' = Observation("unlink", last.op, 0, FALSE, "none", Idle, NotInvoked)
    /\ steps' = steps + 1
    /\ UNCHANGED <<_global_cache, procs>>
    /\ UNCHANGED <<cache, settings, outcomeOf>>

(* diskcache drops a record (size limit, expiry). *)
Evict(k) ==
    /\ steps < MaxSteps
    /\ k \in DOMAIN cache
    /\ cache' = Without(cache, k)
    /\ last' = Observation("evict", last.op, 0, FALSE, "none", Idle, NotInvoked)
    /\ steps' = steps + 1
    /\ UNCHANGED <<_global_cache, procs>>
    /\ UNCHANGED <<fs, settings, outcomeOf>>

Next ==
    \/ \E i \in CallIds, out \in ComputeOutcomes : Call(i, out)
    \/ Clear
    \/ \E p \in DOMAIN fs : UnlinkBlob(p)
    \/ \E k \in DOMAIN cache : Evict(k)

Spec == Init /\ [][Next]_vars

-----------------------------------------------------------------------------
(* Vocabulary of the properties                                            *)

LastIsCall == last.op = "call"
LastCall == Calls[last.call]
LastKey == KeyOf[last.call]
LastMissed == LastIsCall /\ last.invoked > 0
LastReturnedFrame ==
    /\ LastMissed
    /\ ~last.computed.raises
    /\ last.computed.result.shape \in {"DataFrame", "LazyFrame"}

(* blobs/{key}.parquet *)
BlobOf(k) == <<s_blobs, k \o <<".", "p", "a", "r", "q", "u", "e", "t">>>>

BlobFiles(f) == {p \in DOMAIN f : Len(p) = 2 /\ p[1] = s_blobs}
LinksOf(f) == {p \in DOMAIN f : f[p].type = "link"}

(* {readable_dir}/{namespace}/{qualified_name}/{entry_name}/{link_name} *)
SplitLinkPath(c) ==
    <<s_functions, c.w.func.module, c.w.func.qualname,
      args_dir_name(Overridden(c.w), c.args, c.kwargs),
      symlink_name(Overridden(c.w))>>

(* {readable_dir}/{namespace.qualified_name}/{entry_name}/{link_name} *)
FlatLinkPath(c) ==
    <<s_functions, c.w.func.module \o <<".">> \o c.w.func.qualname,
      args_dir_name(Overridden(c.w), c.args, c.kwargs),
      symlink_name(Overridden(c.w))>>

IsLinkAt(p) == p \in DOMAIN fs /\ fs[p].type = "link"

s_output_parquet == <<"o", "u", "t", "p", "u", "t", ".", "p", "a", "r", "q", "u", "e", "t">>

(* mod.f called as f(n=5) through the decorator without overrides *)
IsExampleCall(c) == c = CallOf(WrapF, <<>>, <<Kw(<<"n">>, Int5)>>)
(* mod.f called as f(5) through the decorator without overrides *)
IsPositionalExampleCall(c) == c = CallOf(WrapF, <<Int5>>, <<>>)

(* functions/mod/f/n=5/output.parquet *)
ExampleLink == <<s_functions, <<"m", "o", "d">>, <<"f">>, <<"n", "=", "5">>, s_output_parquet>>
(* functions/mod/f/arg0=5/output.parquet *)
PositionalExampleLink ==
    <<s_functions, <<"m", "o", "d">>, <<"f">>, <<"a", "r", "g", "0", "=", "5">>, s_output_parquet>>

FirstCallStoresAt(linkOf(_)) ==
    (LastIsCall /\ ~last.present) =>
        /\ last.invoked = 1
        /\ LastReturnedFrame =>
             /\ BlobOf(LastKey) \in DOMAIN fs
             /\ fs[BlobOf(LastKey)].type = "file"
             /\ LastKey \in DOMAIN cache
             /\ cache[LastKey] = [path |-> BlobOf(LastKey),
                                  is_lazy |-> last.computed.result.shape = "LazyFrame"]
             /\ IsLinkAt(linkOf(LastCall))
             /\ IsExampleCall(LastCall) => IsLinkAt(ExampleLink)

LayoutLinkPath(c) ==
    IF c.w.use_split_module THEN SplitLinkPath(c) ELSE FlatLinkPath(c)

-----------------------------------------------------------------------------
(* Steps, seen from the state before and the state after                   *)

(* This step is call i. *)
StepIsCall(i) == steps' = steps + 1 /\ last'.op = "call" /\ last'.call = i

FrameShapes == {"DataFrame", "LazyFrame"}
ReturnedFrame(out) == ~out.raises /\ out.result.shape \in FrameShapes
ReturnedOther(out) == ~out.raises /\ out.result.shape \notin FrameShapes

(* C2: once call i has stored its result, a repeated call i, with the blob *)
(* on disk and the record in the index, does not invoke the computation,   *)
(* returns the content that was stored and creates no blob file.           *)
C2_RepeatedCallHits ==
    [][\A i \in CallIds :
        ( /\ StepIsCall(i)
          /\ i \in DOMAIN outcomeOf /\ ReturnedFrame(outcomeOf[i])
          /\ KeyOf[i] \in DOMAIN cache
          /\ BlobOf(KeyOf[i]) \in DOMAIN fs )
        => /\ last'.invoked = 0
           /\ ~last'.raised
           /\ last'.value.data = outcomeOf[i].result.data
           /\ BlobFiles(fs') = BlobFiles(fs)]_vars

(* A repeated call was answered from the cache. *)
C2_Witness ==
    /\ LastIsCall /\ last.prior = "stored" /\ last.present
    /\ last.invoked = 0
    /\ last.value.shape \in FrameShapes

(* C3: a call that finds a record whose artifact file is gone invokes the  *)
(* computation; afterwards the index holds a fresh record for the key that *)
(* points to an existing blob with the new content, or, when the result is *)
(* not a frame or the computation fails, no record for the key.            *)
C3_SelfHealingMiss ==
    [][\A i \in CallIds :
        ( /\ StepIsCall(i)
          /\ KeyOf[i] \in DOMAIN cache
          /\ cache[KeyOf[i]].path \notin DOMAIN fs )
        => /\ last'.invoked = 1
           /\ IF ReturnedFrame(last'.computed)
              THEN /\ KeyOf[i] \in DOMAIN cache'
                   /\ cache'[KeyOf[i]].path = BlobOf(KeyOf[i])
                   /\ cache'[KeyOf[i]].is_lazy = (last'.computed.result.shape = "LazyFrame")
                   /\ BlobOf(KeyOf[i]) \in DOMAIN fs'
                   /\ fs'[BlobOf(KeyOf[i])].data = last'.computed.result.data
              ELSE /\ KeyOf[i] \notin DOMAIN cache'
                   /\ BlobOf(KeyOf[i]) \notin DOMAIN fs']_vars

(* A call found a stale record, recomputed and stored again. *)
C3_Witness ==
    /\ LastIsCall /\ last.present /\ last.invoked = 1
    /\ ReturnedFrame(last.computed)
    /\ LastKey \in DOMAIN cache /\ cache[LastKey].path \in DOMAIN fs

(* C4: a call whose computation returns a value that is not a frame        *)
(* returns that value without raising and creates no blob, no record and   *)
(* no link; a later identical call invokes the computation again.          *)
C4_PassThrough ==
    [][\A i \in CallIds :
        /\ ( StepIsCall(i) /\ last'.invoked > 0 /\ ReturnedOther(last'.computed) )
           => /\ last'.value = last'.computed.result
              /\ ~last'.raised
              /\ fs' = fs
              /\ DOMAIN cache' \subseteq DOMAIN cache
              /\ KeyOf[i] \notin DOMAIN cache'
        /\ ( StepIsCall(i) /\ i \in DOMAIN outcomeOf /\ ReturnedOther(outcomeOf[i]) )
           => last'.invoked = 1]_vars

(* A call passed a non-frame through for the second time. *)
C4_Witness ==
    /\ LastIsCall /\ last.prior = "passthrough"
    /\ last.invoked = 1 /\ ReturnedOther(last.computed)
    /\ last.value = last.computed.result

(* C5: a call whose computation fails propagates that failure, has invoked *)
(* the computation exactly once and creates no blob, no record and no      *)
(* link; the next identical call invokes the computation again.            *)
C5_FailurePropagates ==
    [][\A i \in CallIds :
        /\ ( StepIsCall(i) /\ last'.computed.raises )
           => /\ last'.raised
              /\ last'.value = last'.computed.result
              /\ last'.invoked = 1
              /\ fs' = fs
              /\ DOMAIN cache' \subseteq DOMAIN cache
              /\ KeyOf[i] \notin DOMAIN cache'
        /\ ( StepIsCall(i) /\ i \in DOMAIN outcomeOf /\ outcomeOf[i].raises )
           => last'.invoked > 0]_vars

(* A call failed again after an identical call had failed. *)
C5_Witness ==
    /\ LastIsCall /\ last.prior = "raised"
    /\ last.invoked = 1 /\ last.computed.raises /\ last.raised

-----------------------------------------------------------------------------
(* Bound arguments                                                         *)

KwNames(kwargs) == [j \in 1..Len(kwargs) |-> kwargs[j].name]

(* The value call c binds to parameter p of its function: the positional   *)
(* argument at p, else the keyword argument of that name, else the         *)
(* declared default.                                                       *)
BoundValue(c, p) ==
    LET name == c.w.func.params[p].name
    IN  IF p <= Len(c.args) THEN c.args[p]
        ELSE IF \E j \in 1..Len(c.kwargs) : c.kwargs[j].name = name
        THEN c.kwargs[CHOOSE j \in 1..Len(c.kwargs) : c.kwargs[j].name = name].value
        ELSE c.w.func.params[p].default

(* Parameter name -> value, in declaration order, defaults applied. *)
BoundArguments(c) ==
    [p \in 1..Len(c.w.func.params) |->
        [name |-> c.w.func.params[p].name, value |-> BoundValue(c, p)]]

(* The parameters call c passes itself, positionally or by keyword. *)
PassedArguments(c) ==
    {[name |-> c.w.func.params[p].name, value |-> c.args[p]] : p \in 1..Len(c.args)}
    \cup {c.kwargs[j] : j \in 1..Len(c.kwargs)}

SameFunction(c, d) == c.w.func = d.w.func

(* Call i is stored: its record is in the index and its blob is on disk.   *)
IsStored(i) ==
    /\ KeyOf[i] \in DOMAIN cache
    /\ cache[KeyOf[i]].path \in DOMAIN fs

ArgumentsDiffer(i, j) ==
    /\ SameFunction(Calls[i], Calls[j])
    /\ BoundArguments(Calls[i]) # BoundArguments(Calls[j])

NeverComputedCallMisses ==
    (LastIsCall /\ last.prior = "none") => last.invoked = 1

(* C6, as stated: two calls of one function whose bound argument values    *)
(* differ get distinct keys, distinct blob files and distinct readable     *)
(* directories, and the second call is a miss.                             *)
C6_AlwaysDistinctDirectories ==
    /\ NeverComputedCallMisses
    /\ \A i, j \in CallIds :
        (ArgumentsDiffer(i, j) /\ IsStored(i) /\ IsStored(j))
        => /\ KeyOf[i] # KeyOf[j]
           /\ cache[KeyOf[i]].path # cache[KeyOf[j]].path
           /\ PlanOf[i].dir # PlanOf[j].dir

(* The repr() texts of the bound values, which the key is made of. *)
BoundReprs(c) == [p \in 1..Len(c.w.func.params) |-> PyRepr(BoundValue(c, p))]

(* The calls pass their arguments the same way through the same decorator. *)
SameForm(c, d) ==
    /\ c.w = d.w
    /\ Len(c.args) = Len(d.args)
    /\ KwNames(c.kwargs) = KwNames(d.kwargs)

(* str(value)[:max_arg_length] of every argument passed, in call order. *)
TruncatedTexts(c) ==
    [p \in 1..Len(c.args) |-> Truncate(PyStr(c.args[p]), c.w.use_max_arg_len)]
    \o [j \in 1..Len(c.kwargs) |->
           Truncate(PyStr(c.kwargs[j].value), c.w.use_max_arg_len)]

EntryName(c) == args_dir_name(Overridden(c.w), c.args, c.kwargs)

(* C6, amended: two calls of one function whose bound argument values      *)
(* differ in their repr() get distinct keys and distinct blob files, and   *)
(* the second call is a miss; through one decorator their readable         *)
(* directories are distinct exactly when their entry names differ, and two *)
(* calls that pass their arguments the same way with the same string forms *)
(* within max_arg_length characters share one readable directory.          *)
C6_DistinctArguments ==
    /\ NeverComputedCallMisses
    /\ \A i, j \in CallIds :
        ( /\ ArgumentsDiffer(i, j)
          /\ BoundReprs(Calls[i]) # BoundReprs(Calls[j])
          /\ IsStored(i) /\ IsStored(j) )
        => /\ KeyOf[i] # KeyOf[j]
           /\ cache[KeyOf[i]].path # cache[KeyOf[j]].path
           /\ PlanOf[i].dir \in DOMAIN fs
           /\ PlanOf[j].dir \in DOMAIN fs
           /\ Calls[i].w = Calls[j].w
              => /\ (PlanOf[i].dir # PlanOf[j].dir)
                    <=> (EntryName(Calls[i]) # EntryName(Calls[j]))
                 /\ ( SameForm(Calls[i], Calls[j])
                      /\ TruncatedTexts(Calls[i]) = TruncatedTexts(Calls[j]) )
                    => PlanOf[i].dir = PlanOf[j].dir

(* f(n=5) and f(n=6) are both stored, the later one by a miss, in two      *)
(* readable directories.                                                   *)
C6_Witness ==
    /\ LastIsCall /\ last.prior = "none" /\ last.invoked = 1
    /\ \E i, j \in CallIds :
        /\ last.call = j
        /\ ArgumentsDiffer(i, j) /\ IsStored(i) /\ IsStored(j)
        /\ Calls[i].w = Calls[j].w
        /\ EntryName(Calls[i]) # EntryName(Calls[j])
        /\ PlanOf[i].dir # PlanOf[j].dir
        /\ IsDir(fs, PlanOf[i].dir) /\ IsDir(fs, PlanOf[j].dir)

IsSubSeq(s, t) == Len(s) <= Len(t) /\ SubSeq(t, 1, Len(s)) = s

(* Call j is call i with arguments left out whose default is what i passes. *)
OmitsDefaults(j, i) ==
    /\ SameFunction(Calls[i], Calls[j])
    /\ BoundArguments(Calls[i]) = BoundArguments(Calls[j])
    /\ PassedArguments(Calls[j]) \subseteq PassedArguments(Calls[i])
    /\ PassedArguments(Calls[j]) # PassedArguments(Calls[i])

(* C8: a call that omits an argument whose default equals the value a      *)
(* stored call passed explicitly has the same key and is a hit.            *)
C8_OmittedDefaultHits ==
    [][\A i, j \in CallIds :
        (StepIsCall(j) /\ OmitsDefaults(j, i) /\ IsStored(i))
        => /\ KeyOf[i] = KeyOf[j]
           /\ last'.invoked = 0]_vars

(* Calls i and j pass the same values to the same parameters, differently. *)
SameBinding(i, j) ==
    /\ i # j
    /\ Calls[i].w = Calls[j].w
    /\ PassedArguments(Calls[i]) = PassedArguments(Calls[j])

(* C9: a call that binds the same values to the same parameters as a       *)
(* stored call, positionally instead of by keyword or with the keywords in *)
(* another order, has the same key and readable path and is a hit.         *)
C9_SameBindingHits ==
    [][\A i, j \in CallIds :
        (StepIsCall(j) /\ SameBinding(i, j) /\ IsStored(i))
        => /\ KeyOf[i] = KeyOf[j]
           /\ PlanOf[i].dir = PlanOf[j].dir
           /\ last'.invoked = 0]_vars

ReadableIsEmpty(f) ==
    \A p \in DOMAIN f : IsPrefix(<<s_functions>>, p) => p = <<s_functions>>

IsDirectoryIn(f, p) == p \in DOMAIN f /\ f[p].type = "dir"

(* C10: when clear() returns there is no blob file, no record, and the     *)
(* readable directory is empty, while the cache root, the blobs directory  *)
(* and the readable directory exist; the call that follows is a miss and   *)
(* stores again: blob, record and a link to that blob.                     *)
C10_ClearEmpties ==
    [][/\ (steps' = steps + 1 /\ last'.op = "clear")
          => /\ BlobFiles(fs') = {}
             /\ DOMAIN cache' = {}
             /\ ReadableIsEmpty(fs')
             /\ IsDirectoryIn(fs', <<>>)
             /\ IsDirectoryIn(fs', <<s_blobs>>)
             /\ IsDirectoryIn(fs', <<s_functions>>)
       /\ \A i \in CallIds :
            (last.op = "clear" /\ StepIsCall(i))
            => /\ last'.invoked = 1
               /\ ReturnedFrame(last'.computed)
                  => /\ KeyOf[i] \in DOMAIN cache'
                     /\ cache'[KeyOf[i]].path = BlobOf(KeyOf[i])
                     /\ BlobFiles(fs') = {BlobOf(KeyOf[i])}
                     /\ LinksOf(fs') = {PlanOf[i].link}
                     /\ ResolveLink(fs', PlanOf[i].link) = BlobOf(KeyOf[i])]_vars

(* A call that was stored and then cleared is computed and stored again. *)
C10_Witness ==
    /\ LastIsCall /\ last.after = "clear" /\ last.prior = "stored"
    /\ last.invoked = 1 /\ ReturnedFrame(last.computed)
    /\ IsStored(last.call)

-----------------------------------------------------------------------------
(* The readable link                                                       *)

(* File p is the same in f and g: absent in both, or the same node. *)
SameAt(f, g, p) ==
    IF p \in DOMAIN f THEN p \in DOMAIN g /\ g[p] = f[p] ELSE p \notin DOMAIN g

(* C11: a call that stores while a link to another artifact is already at  *)
(* its readable link path, dangling or not, leaves that link and the file  *)
(* it points to as they were and raises nothing.                           *)
C11_NonClobber ==
    [][\A i \in CallIds :
        ( /\ StepIsCall(i)
          /\ last'.invoked = 1 /\ ReturnedFrame(last'.computed)
          /\ IsLinkAt(PlanOf[i].link)
          /\ fs[PlanOf[i].link].target # PlanOf[i].relative_blob )
        => /\ fs'[PlanOf[i].link] = fs[PlanOf[i].link]
           /\ SameAt(fs, fs', ResolveLink(fs, PlanOf[i].link))
           /\ ~last'.raised
           /\ last'.value = last'.computed.result]_vars

(* A call stored its result while a dangling link to another blob was at   *)
(* its link path.                                                          *)
C11_Witness ==
    /\ LastIsCall /\ last.invoked = 1 /\ ReturnedFrame(last.computed)
    /\ IsStored(last.call)
    /\ IsLinkAt(PlanOf[last.call].link)
    /\ fs[PlanOf[last.call].link].target # PlanOf[last.call].relative_blob
    /\ ResolveLink(fs, PlanOf[last.call].link) \notin DOMAIN fs

-----------------------------------------------------------------------------
(* A readable tree that something else has written into                    *)

(* A regular file put where the cache wants a directory or a link. *)
WithFileAt(f, p) ==
    LET made == mkdir(f, Parent(p)).fs
    IN  [q \in DOMAIN made \cup {p} |-> IF q = p THEN FileNode("foreign") ELSE made[q]]

(* functions/mod is a directory position of the split layout and           *)
(* functions/mod.f one of the flat layout;                                 *)
(* functions/mod/f/n=5/output.parquet is the link path of f(n=5).          *)
ObstructedPaths ==
    {readable_dir \o <<s_mod>>, readable_path(Overridden(WrapFlatF), FuncF),
     PlanOf[3].link}

InitObstructed ==
    /\ cache = <<>>
    /\ fs \in {WithFileAt(InitFs, p) : p \in ObstructedPaths}
    /\ settings = InitSettings
    /\ outcomeOf = <<>>
    /\ last = Observation("init", "init", 0, FALSE, "none", Idle, NotInvoked)
    /\ steps = 0
    /\ _global_cache = _DummyCache
    /\ procs = <<>>

SpecObstructed == InitObstructed /\ [][Next]_vars

(* C12: whatever is in the way of the readable link, a call whose          *)
(* computation returned a frame returns that frame without raising and     *)
(* leaves its blob and its record stored, and the identical call that      *)
(* follows is a hit.                                                       *)
C12_LinkFailureSwallowed ==
    [][\A i \in CallIds :
        /\ ( StepIsCall(i) /\ last'.invoked = 1 /\ ReturnedFrame(last'.computed) )
           => /\ ~last'.raised
              /\ last'.value = last'.computed.result
              /\ KeyOf[i] \in DOMAIN cache'
              /\ BlobOf(KeyOf[i]) \in DOMAIN fs'
        /\ ( /\ StepIsCall(i)
             /\ LastIsCall /\ last.call = i
             /\ last.invoked = 1 /\ ReturnedFrame(last.computed) )
           => last'.invoked = 0]_vars

-----------------------------------------------------------------------------
(* CachePathManager (path_manager.py)                                      *)

(* path_manager.py 16-37, entry_dir_callback left at its default. *)
CachePathManager(nested, trim_arg) ==
    [symlinks_dir_name |-> s_functions, nested |-> nested, trim_arg |-> trim_arg]

(* The value is encoded first and cut afterwards. *)
_default_entry_dir_name_cut_last(self, func, bound_args) ==
    LET args_parts == [i \in 1..Len(bound_args) |->
                          bound_args[i].name \o <<"=">>
                          \o Truncate(Quote(PyStr(bound_args[i].value)), self.trim_arg)]
    IN  IF args_parts # <<>> THEN JoinWith(<<"_">>, args_parts) ELSE s_no_args

(* The pairs are joined by '-' and an empty mapping gives the empty name. *)
_default_entry_dir_name_dashed(self, func, bound_args) ==
    LET args_parts == [i \in 1..Len(bound_args) |->
                          bound_args[i].name \o <<"=">>
                          \o Quote(Truncate(PyStr(bound_args[i].value), self.trim_arg))]
    IN  JoinWith(<<"-">>, args_parts)

(* path_manager.py 46-64: bound_args is the mapping in its own order. *)
_default_entry_dir_name(self, func, bound_args) ==
    LET args_parts == [i \in 1..Len(bound_args) |->
                          bound_args[i].name \o <<"=">>
                          \o Quote(Truncate(PyStr(bound_args[i].value), self.trim_arg))]
    IN  IF args_parts # <<>> THEN JoinWith(<<"_">>, args_parts) ELSE s_no_args

(* path_manager.py 66-75 *)
get_parquet_path(cache_key) == cache_dir \o <<s_blobs>> \o <<cache_key \o s_dot_parquet>>

(* path_manager.py 77-103 *)
get_readable_path(self, func, bound_args) ==
    LET manager_readable_dir == cache_dir \o <<self.symlinks_dir_name>>
        function_dir ==
            IF self.nested
            THEN manager_readable_dir \o <<Quote(func.module)>> \o <<Quote(func.qualname)>>
            ELSE manager_readable_dir
                 \o <<Quote(func.module \o <<".">> \o func.qualname)>>
    IN  function_dir \o <<_default_entry_dir_name(self, func, bound_args)>>

-----------------------------------------------------------------------------
(* SymlinkManager (symlink_manager.py)                                     *)

(* symlink_manager.py 20-26: symlink_name is None, a str or a callable. *)
SymlinkManager(name) == [symlink_name |-> name]

cb_by_shape == <<"b", "y", "_", "s", "h", "a", "p", "e">>
cb_int == <<"i", "n", "t">>
cb_blank == <<"b", "l", "a", "n", "k">>
cb_empty == <<"e", "m", "p", "t", "y">>

s_lazy_parquet == <<"l", "a", "z", "y">> \o s_dot_parquet
s_eager_parquet == <<"e", "a", "g", "e", "r">> \o s_dot_parquet

(* symlink_manager.py 92: what the configured callback returns. *)
ApplyCallback(cb, func, bound_args, result, cache_key) ==
    CASE cb = cb_by_shape ->
            PyString(IF result.shape = "LazyFrame" THEN s_lazy_parquet
                     ELSE s_eager_parquet)
      [] cb = cb_int -> PyInt(<<"7">>)
      [] cb = cb_blank -> PyString(<<" ", " ">>)
      [] cb = cb_empty -> PyString(<<>>)

Whitespace == {" "}

(* not s.strip() *)
IsBlank(s) == \A i \in 1..Len(s) : s[i] \in Whitespace

(* The callback's return value is used unchecked. *)
_get_symlink_name_unchecked(self, func, bound_args, result, cache_key) ==
    IF self.symlink_name.callable
    THEN [raised |-> FALSE, error |-> "",
          name |-> ApplyCallback(self.symlink_name.v, func, bound_args,
                                 result, cache_key).text]
    ELSE IF ~self.symlink_name.none
    THEN [raised |-> FALSE, error |-> "", name |-> self.symlink_name.v]
    ELSE [raised |-> FALSE, error |-> "", name |-> _DEFAULT_SYMLINK_NAME]

(* symlink_manager.py 69-107 *)
_get_symlink_name(self, func, bound_args, result, cache_key) ==
    IF self.symlink_name.callable
    THEN LET returned == ApplyCallback(self.symlink_name.v, func, bound_args,
                                       result, cache_key)
         IN  IF returned.type # "str"
             THEN [raised |-> TRUE, error |-> "TypeError", name |-> <<>>]
             ELSE IF IsBlank(returned.text)
             THEN [raised |-> TRUE, error |-> "ValueError", name |-> <<>>]
             ELSE [raised |-> FALSE, error |-> "", name |-> returned.text]
    ELSE IF ~self.symlink_name.none
    THEN IF IsBlank(self.symlink_name.v)
         THEN [raised |-> TRUE, error |-> "ValueError", name |-> <<>>]
         ELSE [raised |-> FALSE, error |-> "", name |-> self.symlink_name.v]
    ELSE [raised |-> FALSE, error |-> "", name |-> _DEFAULT_SYMLINK_NAME]

(* symlink_manager.py 28-67: mkdir and _get_symlink_name are outside the   *)
(* try block; a failure of symlink_to is swallowed.                        *)
create_symlink(f, self, func, bound_args, cache_key, result, link_dir, blob_path) ==
    LET made == mkdir(f, link_dir)
        named == _get_symlink_name(self, func, bound_args, result, cache_key)
        link == link_dir \o <<named.name>>
        relative_blob == relpath(blob_path, link_dir)
    IN  IF made.raised
        THEN [raised |-> TRUE, error |-> "FileExistsError", fs |-> f, link |-> <<>>]
        ELSE IF named.raised
        THEN [raised |-> TRUE, error |-> named.error, fs |-> made.fs, link |-> <<>>]
        ELSE IF ~Exists(made.fs, link)
        THEN [raised |-> FALSE, error |-> "",
              fs |-> symlink_to(made.fs, link, relative_blob).fs, link |-> link]
        ELSE [raised |-> FALSE, error |-> "", fs |-> made.fs, link |-> link]

-----------------------------------------------------------------------------
(* The wrapper under other configurations, and the two managers on their   *)
(* own: the instance is drawn when the cache is constructed, the           *)
(* decorator arguments and the call arguments at each step.                *)

MaxUnitSteps == 2

DefaultTrimArg == 50

Int0 == PyInt(<<"0">>)
Int1 == PyInt(<<"1">>)
StrX == PyString(<<"x">>)
StrXB == PyString(<<"x", "_", "b">>)

(* def o(): def f(): ...  in module mod: a nested function *)
FuncInner == [module |-> s_mod,
              qualname |-> <<"o", ".", "<", "l", "o", "c", "a", "l", "s", ">", ".", "f">>,
              params |-> <<>>]

(* def h(a, c=0, b_c=0) in module mod *)
FuncH == [module |-> s_mod, qualname |-> <<"h">>,
          params |-> <<Param(<<"a">>, FALSE, Int0), Param(<<"c">>, TRUE, Int0),
                       Param(<<"b", "_", "c">>, TRUE, Int0)>>]

(* def c() in module a.b *)
FuncAB_C == [module |-> <<"a", ".", "b">>, qualname |-> <<"c">>, params |-> <<>>]

(* class b: def c() in module a *)
FuncA_BC == [module |-> <<"a">>, qualname |-> <<"b", ".", "c">>, params |-> <<>>]

s_i_parquet == <<"i">> \o s_dot_parquet

(* PolarsCache(symlink_name=...) *)
InstanceNamed(name) == [InitSettings EXCEPT !.symlink_name = name]

Instances ==
    {InitSettings, InstanceNamed(SomeStr(s_i_parquet)),
     InstanceNamed(SomeCallable(cb_by_shape))}

s_my_cache == <<"m", "y", "_", "c", "a", "c", "h", "e">>

(* cache_polars(readable_dir_name="my_cache") *)
DirNameOverrides == [NoOverrides EXCEPT !.readable_dir_name = SomeStr(s_my_cache)]

(* cache_polars(symlink_name="") *)
EmptyNameOverrides == [NoOverrides EXCEPT !.symlink_name = SomeStr(<<>>)]

UnitCase(o, func, args, kwargs) ==
    [o |-> o, func |-> func, args |-> args, kwargs |-> kwargs]

UnitCalls ==
    << UnitCase(NoOverrides, FuncInner, <<>>, <<>>),
       UnitCase(FlatShortOverrides, FuncInner, <<>>, <<>>),
       UnitCase(NoOverrides, FuncF, <<>>, <<Kw(<<"n">>, Int5)>>),
       UnitCase(FlatShortOverrides, FuncF, <<>>, <<Kw(<<"n">>, Int5)>>),
       UnitCase(EmptyNameOverrides, FuncF, <<>>, <<Kw(<<"n">>, Int5)>>),
       UnitCase(NoOverrides, FuncH, <<>>,
                <<Kw(<<"a">>, StrX), Kw(<<"b", "_", "c">>, Int1)>>),
       UnitCase(NoOverrides, FuncH, <<>>,
                <<Kw(<<"a">>, StrXB), Kw(<<"c">>, Int1)>>),
       UnitCase(NoOverrides, FuncG, <<Int5>>, <<Kw(<<"b">>, Int6)>>),    \* g(5, b=6)
       UnitCase(NoOverrides, FuncH, <<StrX>>,                           \* h("x", b_c=1, c=0)
                <<Kw(<<"b", "_", "c">>, Int1), Kw(<<"c">>, Int0)>>),
       UnitCase(NoOverrides, FuncAB_C, <<>>, <<>>),
       UnitCase(NoOverrides, FuncA_BC, <<>>, <<>>),
       UnitCase(FlatShortOverrides, FuncAB_C, <<>>, <<>>),
       UnitCase(FlatShortOverrides, FuncA_BC, <<>>, <<>>),
       UnitCase(DirNameOverrides, FuncF, <<>>, <<Kw(<<"n">>, Int6)>>) >>

UnitCallIds == DOMAIN UnitCalls

UnitKeyOf ==
    [i \in UnitCallIds |->
        _get_cache_key(UnitCalls[i].func, UnitCalls[i].args, UnitCalls[i].kwargs)]

(* decorator.py 131-162 and 205-213 for unit call i on instance self. *)
UnitPlan(self, i) ==
    ReadablePlan(Overridden(cache_polars(self, UnitCalls[i].func, UnitCalls[i].o)),
                 UnitCalls[i].func, UnitCalls[i].args, UnitCalls[i].kwargs,
                 UnitKeyOf[i])

UnitPlanOf == [self \in Instances |-> [i \in UnitCallIds |-> UnitPlan(self, i)]]

PMNested == CachePathManager(TRUE, DefaultTrimArg)
PMFlat == CachePathManager(FALSE, 3)
PathManagers == <<PMNested, PMFlat>>

(* The bound arguments of a call, as inspect.signature(func).bind gives    *)
(* them to the path manager.                                               *)
BoundMappings ==
    << [func |-> FuncInner, bound_args |-> <<>>],
       [func |-> FuncF, bound_args |-> <<Kw(<<"n">>, Int5)>>],
       [func |-> FuncF, bound_args |-> <<Kw(<<"n">>, Str5)>>],
       [func |-> FuncF, bound_args |-> <<Kw(<<"n">>, StrLongC)>>],
       [func |-> FuncG, bound_args |-> <<Kw(<<"a">>, Int5), Kw(<<"b">>, Int6)>>],
       [func |-> FuncH,
        bound_args |-> <<Kw(<<"a">>, StrX), Kw(<<"c">>, Int0), Kw(<<"b", "_", "c">>, Int1)>>],
       [func |-> FuncH,
        bound_args |-> <<Kw(<<"a">>, StrXB), Kw(<<"c">>, Int1), Kw(<<"b", "_", "c">>, Int0)>>] >>

PathCases ==
    [i \in 1..(2 * Len(BoundMappings)) |->
        LET m == BoundMappings[((i - 1) % Len(BoundMappings)) + 1]
        IN  [pm |-> PathManagers[((i - 1) \div Len(BoundMappings)) + 1],
             func |-> m.func, bound_args |-> m.bound_args]]

PathCaseIds == DOMAIN PathCases

PathOf ==
    [i \in PathCaseIds |->
        get_readable_path(PathCases[i].pm, PathCases[i].func, PathCases[i].bound_args)]

NameSources ==
    << NoneStr, SomeStr(<<"s">> \o s_dot_parquet), SomeStr(<<" ", " ">>),
       SomeCallable(cb_by_shape), SomeCallable(cb_int), SomeCallable(cb_blank),
       SomeCallable(cb_empty) >>

(* create_symlink for f(n=5) returning a DataFrame, or f(n="5") returning  *)
(* a LazyFrame; the two share one readable directory.                      *)
LinkCases ==
    [i \in 1..(2 * Len(NameSources)) |->
        LET first == i <= Len(NameSources)
            n == IF first THEN Int5 ELSE Str5
        IN  [sm |-> SymlinkManager(NameSources[((i - 1) % Len(NameSources)) + 1]),
             func |-> FuncF,
             bound_args |-> <<Kw(<<"n">>, n)>>,
             cache_key |-> _get_cache_key(FuncF, <<>>, <<Kw(<<"n">>, n)>>),
             result |-> IF first THEN DataFrame("d1") ELSE LazyFrame("d2")]]

LinkCaseIds == DOMAIN LinkCases


(* What a step of this specification was and what its caller saw. *)
UnitObservation(op, i, raised, error, path, value) ==
    [op |-> op, case |-> i, raised |-> raised, error |-> error,
     path |-> path, value |-> value]

UnitInit ==
    /\ cache = <<>>
    /\ fs = InitFs
    /\ settings \in Instances
    /\ outcomeOf = <<>>
    /\ last = UnitObservation("init", 0, FALSE, "", <<>>, NoValue)
    /\ steps = 0
    /\ _global_cache = _DummyCache
    /\ procs = <<>>

FrameOutcomes == {Returns(DataFrame("d1")), Returns(LazyFrame("d2"))}

(* One call of a function decorated on the instance, run to completion. *)
UnitCall(i, out) ==
    /\ steps < MaxUnitSteps
    /\ LET r == wrapper(cache, fs, settings, UnitKeyOf[i], UnitPlanOf[settings][i], out)
       IN  /\ cache' = r.cache
           /\ fs' = r.fs
           /\ settings' = r.settings
           /\ last' = UnitObservation("call", i, r.raised,
                                      IF r.raised THEN r.value.data ELSE "",
                                      UnitPlanOf[settings][i].link, r.value)
    /\ steps' = steps + 1
    /\ UNCHANGED <<_global_cache, procs>>
    /\ UNCHANGED outcomeOf

(* The directory is created as a side effect. *)
GetReadablePath_creating(i) ==
    /\ steps < MaxUnitSteps
    /\ last' = UnitObservation("get_readable_path", i, FALSE, "", PathOf[i], NoValue)
    /\ outcomeOf' = IF i \in DOMAIN outcomeOf THEN outcomeOf ELSE With(outcomeOf, i, PathOf[i])
    /\ fs' = mkdir(fs, PathOf[i]).fs
    /\ steps' = steps + 1
    /\ UNCHANGED <<_global_cache, procs>>
    /\ UNCHANGED <<cache, settings>>

(* CachePathManager.get_readable_path is called; outcomeOf keeps the path  *)
(* the first call with these inputs returned.                              *)
GetReadablePath(i) ==
    /\ steps < MaxUnitSteps
    /\ last' = UnitObservation("get_readable_path", i, FALSE, "", PathOf[i], NoValue)
    /\ outcomeOf' = IF i \in DOMAIN outcomeOf THEN outcomeOf ELSE With(outcomeOf, i, PathOf[i])
    /\ steps' = steps + 1
    /\ UNCHANGED <<_global_cache, procs>>
    /\ UNCHANGED <<cache, fs, settings>>

(* The blob is saved and SymlinkManager.create_symlink projects it into    *)
(* the directory the nested path manager gives.                            *)
CreateSymlink(i) ==
    /\ steps < MaxUnitSteps
    /\ LET c == LinkCases[i]
           blob_path == get_parquet_path(c.cache_key)
           saved == write_parquet(fs, blob_path, c.result.data)
           r == create_symlink(saved, c.sm, c.func, c.bound_args, c.cache_key,
                               c.result, get_readable_path(PMNested, c.func, c.bound_args),
                               blob_path)
       IN  /\ fs' = r.fs
           /\ last' = UnitObservation("create_symlink", i, r.raised, r.error,
                                      r.link, NoValue)
    /\ steps' = steps + 1
    /\ UNCHANGED <<_global_cache, procs>>
    /\ UNCHANGED <<cache, settings, outcomeOf>>

UnitNext ==
    \/ \E i \in UnitCallIds, out \in FrameOutcomes : UnitCall(i, out)
    \/ \E i \in PathCaseIds : GetReadablePath(i)
    \/ \E i \in LinkCaseIds : CreateSymlink(i)

UnitSpec == UnitInit /\ [][UnitNext]_vars

-----------------------------------------------------------------------------
(* Link names                                                              *)

(* This step is create_symlink on link case i. *)
StepIsCreateSymlink(i) ==
    steps' = steps + 1 /\ last'.op = "create_symlink" /\ last'.case = i

CallbackOf(i) == LinkCases[i].sm.symlink_name

(* What the callback of link case i returns. *)
CallbackReturn(i) ==
    ApplyCallback(CallbackOf(i).v, LinkCases[i].func, LinkCases[i].bound_args,
                  LinkCases[i].result, LinkCases[i].cache_key)

(* C13: create_symlink with a callback that returns a non-string fails     *)
(* with TypeError, with one that returns an empty or whitespace-only       *)
(* string it fails with ValueError; the caller gets the failure and the    *)
(* call creates no link.                                                   *)
C13_InvalidCallbackFails ==
    [][\A i \in LinkCaseIds :
        (StepIsCreateSymlink(i) /\ CallbackOf(i).callable)
        => /\ CallbackReturn(i).type # "str"
              => /\ last'.raised /\ last'.error = "TypeError"
                 /\ LinksOf(fs') = LinksOf(fs)
           /\ (CallbackReturn(i).type = "str" /\ IsBlank(CallbackReturn(i).text))
              => /\ last'.raised /\ last'.error = "ValueError"
                 /\ LinksOf(fs') = LinksOf(fs)]_vars

(* create_symlink failed with TypeError on a callback that returned an int *)
(* and left no link.                                                       *)
C13_Witness ==
    /\ last.op = "create_symlink"
    /\ CallbackOf(last.case).callable /\ CallbackReturn(last.case).type = "int"
    /\ last.raised /\ last.error = "TypeError"
    /\ LinksOf(fs) = {}

(* The link name the resolution order of the claim gives to unit call i on *)
(* instance self: the decorator's override, else the callback's name, else *)
(* the instance's name, else output.parquet.                               *)
ResolvedLinkName(self, i, result) ==
    IF ~UnitCalls[i].o.symlink_name.none THEN UnitCalls[i].o.symlink_name.v
    ELSE IF self.symlink_name.callable
    THEN ApplyCallback(self.symlink_name.v, UnitCalls[i].func, UnitCalls[i].kwargs,
                       result, UnitKeyOf[i]).text
    ELSE IF ~self.symlink_name.none THEN self.symlink_name.v
    ELSE s_output_parquet

(* This step is unit call i. *)
StepIsUnitCall(i) == steps' = steps + 1 /\ last'.op = "call" /\ last'.case = i

(* C14: a call that stores names its link by the override string of its    *)
(* decorator if one is given, else by the callback, else by the instance's *)
(* name, else output.parquet.                                              *)
C14_LinkNameOrder ==
    [][\A i \in UnitCallIds :
        (StepIsUnitCall(i) /\ UnitKeyOf[i] \notin DOMAIN cache)
        => /\ ~last'.raised
           /\ LET link == UnitPlanOf[settings][i].dir
                          \o <<ResolvedLinkName(settings, i, last'.value)>>
              IN  link \in DOMAIN fs' /\ fs'[link].type = "link"]_vars

-----------------------------------------------------------------------------
(* Link targets                                                            *)

(* A relative target: it climbs out of the link's directory to the cache   *)
(* root and names a file from there.                                       *)
ClimbsFrom(dir, target) ==
    /\ Len(target) > Len(dir)
    /\ \A k \in 1..Len(dir) : target[k] = s_dotdot
    /\ \A k \in (Len(dir) + 1)..Len(target) : target[k] # s_dotdot

(* C15: a link that a call creates in the readable tree has a relative     *)
(* target which, resolved from the link's directory, is the blob           *)
(* blobs/{key}.parquet of that call, and the file read through the link    *)
(* holds the result the call returned; every link in the tree is the link  *)
(* of some call and leads to that call's blob path.                        *)
C15_LinkLeadsToBlob ==
    [][\A i \in CallIds :
        StepIsCall(i)
        => /\ \A p \in LinksOf(fs') \ LinksOf(fs) :
                /\ p = PlanOf[i].link
                /\ ClimbsFrom(Parent(p), fs'[p].target)
                /\ ResolveLink(fs', p) = BlobOf(KeyOf[i])
                /\ Exists(fs', p)
                /\ fs'[ResolveLink(fs', p)].data = last'.value.data
           /\ \A p \in LinksOf(fs') :
                \E j \in CallIds :
                    /\ p = PlanOf[j].link
                    /\ ResolveLink(fs', p) = BlobOf(KeyOf[j])]_vars

(* A call has just stored a frame and its link leads to its blob. *)
C15_Witness ==
    /\ LastIsCall /\ last.invoked = 1 /\ ReturnedFrame(last.computed)
    /\ IsLinkAt(PlanOf[last.call].link)
    /\ ResolveLink(fs, PlanOf[last.call].link) = BlobOf(LastKey)
    /\ Exists(fs, PlanOf[last.call].link)
    /\ fs[BlobOf(LastKey)].data = last.value.data

-----------------------------------------------------------------------------
(* Readable paths of the path manager                                      *)

LastIsPath == last.op = "get_readable_path"
LastPathCase == PathCases[last.case]

(* The last segment of a path: the entry-directory name. *)
EntryOf(path) == path[Len(path)]

(* sub occurs in s *)
Contains(s, sub) ==
    \E k \in 0..(Len(s) - Len(sub)) : SubSeq(s, k + 1, k + Len(sub)) = sub

(* The first n characters of str(value). *)
FirstChars(v, n) == SubSeq(v.text, 1, IF Len(v.text) < n THEN Len(v.text) ELSE n)

IsLong(v, n) == Len(v.text) > n

(* C16: with maximum value length N and an argument whose string form is   *)
(* longer than N, the argument's part of the entry name is its name, '='   *)
(* and the percent-encoding of the first N characters of the string form;  *)
(* the encoding of the whole value does not appear.                        *)
C16_TruncateThenEncode ==
    LastIsPath =>
        LET c == LastPathCase
            N == c.pm.trim_arg
        IN  \A j \in 1..Len(c.bound_args) :
                IsLong(c.bound_args[j].value, N)
                => /\ Contains(EntryOf(last.path),
                               c.bound_args[j].name \o <<"=">>
                               \o Quote(FirstChars(c.bound_args[j].value, N)))
                   /\ ~Contains(EntryOf(last.path), Quote(c.bound_args[j].value.text))
                   /\ Len(c.bound_args) = 1
                      => EntryOf(last.path)
                         = c.bound_args[j].name \o <<"=">>
                           \o Quote(FirstChars(c.bound_args[j].value, N))

(* n="a/bc" under trim_arg 3 gives the entry n=a%2Fb. *)
C16_Witness ==
    /\ LastIsPath
    /\ LastPathCase.pm.trim_arg = 3
    /\ LastPathCase.bound_args = <<Kw(<<"n">>, StrLongC)>>
    /\ EntryOf(last.path) = <<"n", "=", "a", "%", "2", "F", "b">>


LastIsUnitCall == last.op = "call"
LastUnitCall == UnitCalls[last.case]

(* The encoded form of each value of a mapping, as it stands in the entry. *)
EncodedValues(bound_args, n) ==
    [j \in 1..Len(bound_args) |-> Quote(FirstChars(bound_args[j].value, n))]

(* Every value of the mapping fits the truncation length. *)
ValuesFit(bound_args, n) ==
    \A j \in 1..Len(bound_args) : ~IsLong(bound_args[j].value, n)

(* The depth of a readable directory below the cache root: the readable    *)
(* root, one or two function segments, and the entry.                      *)
ReadableDepth(nested) == IF nested THEN 4 ELSE 3

(* C17: the encoded value of an argument contains neither '/' nor the '_'  *)
(* that joins the pairs, the readable path has no level added by a value,  *)
(* and two different argument mappings of one function whose values fit    *)
(* the truncation length never get the same entry name, from the path      *)
(* manager or from the wrapper.                                            *)
C17_ValuesCannotCollide ==
    /\ LastIsPath =>
        LET c == LastPathCase
        IN  /\ \A j \in 1..Len(c.bound_args) :
                 /\ ~Contains(EncodedValues(c.bound_args, c.pm.trim_arg)[j], <<"/">>)
                 /\ ~Contains(EncodedValues(c.bound_args, c.pm.trim_arg)[j], <<"_">>)
            /\ Len(last.path) = ReadableDepth(c.pm.nested)
            /\ \A k \in PathCaseIds :
                 ( /\ PathCases[k].pm = c.pm /\ PathCases[k].func = c.func
                   /\ PathCases[k].bound_args # c.bound_args
                   /\ ValuesFit(c.bound_args, c.pm.trim_arg)
                   /\ ValuesFit(PathCases[k].bound_args, c.pm.trim_arg) )
                 => EntryOf(PathOf[k]) # EntryOf(last.path)
    /\ (LastIsUnitCall /\ ~last.raised) =>
        \A k \in UnitCallIds :
            ( /\ UnitCalls[k].func = LastUnitCall.func
              /\ UnitCalls[k].o = LastUnitCall.o
              /\ UnitCalls[k].kwargs # LastUnitCall.kwargs )
            => UnitPlanOf[settings][k].dir # Parent(last.path)

(* C18: under the nested layout the readable directory is                  *)
(* root/{namespace}/{qualified_name}/{entry_name}, under the flat layout   *)
(* root/{namespace.qualified_name}/{entry_name}; the namespace and         *)
(* qualified-name segments are percent-encoded in both, by the path        *)
(* manager and by the wrapper.                                             *)
C18_EncodedFunctionSegments ==
    /\ LastIsPath =>
        LET c == LastPathCase
        IN  IF c.pm.nested
            THEN /\ Len(last.path) = 4
                 /\ SubSeq(last.path, 1, 3)
                    = <<s_functions, Quote(c.func.module), Quote(c.func.qualname)>>
            ELSE /\ Len(last.path) = 3
                 /\ SubSeq(last.path, 1, 2)
                    = <<s_functions, Quote(c.func.module \o <<".">> \o c.func.qualname)>>
    /\ (LastIsUnitCall /\ ~last.raised) =>
        LET c == LastUnitCall
            split == IF c.o.split_module_path.none THEN settings.split_module_path
                     ELSE c.o.split_module_path.v
            dir == Parent(last.path)
        IN  IF split
            THEN /\ Len(dir) = 4
                 /\ SubSeq(dir, 1, 3)
                    = <<s_functions, Quote(c.func.module), Quote(c.func.qualname)>>
            ELSE /\ Len(dir) = 3
                 /\ SubSeq(dir, 1, 2)
                    = <<s_functions, Quote(c.func.module \o <<".">> \o c.func.qualname)>>


(* This step is get_readable_path on path case i. *)
StepIsGetReadablePath(i) ==
    steps' = steps + 1 /\ last'.op = "get_readable_path" /\ last'.case = i

ParamNames(func) == [p \in 1..Len(func.params) |-> func.params[p].name]

(* name=value of one bound argument, the value percent-encoded. *)
PairText(kw, n) == kw.name \o <<"=">> \o Quote(FirstChars(kw.value, n))

-----------------------------------------------------------------------------
(* Entry names of the wrapper                                              *)

(* "arg0", "arg1", ... *)
ArgLabel(j) == <<"a", "r", "g">> \o DecimalStr(j)

(* The text of the j-th argument of call c in call order, positional       *)
(* arguments first: its label, '=' and the encoded first n characters.     *)
ArgText(c, j, n) ==
    IF j <= Len(c.args)
    THEN ArgLabel(j - 1) \o <<"=">> \o Quote(FirstChars(c.args[j], n))
    ELSE PairText(c.kwargs[j - Len(c.args)], n)

(* The max_arg_length in force for unit call c on instance self. *)
MaxArgLengthOf(self, c) ==
    IF c.o.max_arg_length.none THEN self.max_arg_length ELSE c.o.max_arg_length.v

-----------------------------------------------------------------------------
(* Separation of functions                                                 *)

(* Unit calls i and j are calls of two functions whose qualified names     *)
(* differ, with identical arguments.                                       *)
OtherFunctionSameArguments(i, j) ==
    /\ UnitCalls[i].func.qualname # UnitCalls[j].func.qualname
    /\ UnitCalls[i].args = UnitCalls[j].args
    /\ UnitCalls[i].kwargs = UnitCalls[j].kwargs

(* The function directory of a readable entry directory. *)
FunctionDir(dir) == Parent(dir)

(* C22: when a call of one function stores into an empty cache, no call of *)
(* a function with another qualified name and the same arguments has its   *)
(* cache key in the index, its blob on disk or the same function           *)
(* directory, and such a call made next invokes its own computation.       *)
C22_FunctionsSeparate ==
    [][\A i, j \in UnitCallIds :
        ( /\ StepIsUnitCall(i) /\ cache = <<>> /\ ~last'.raised
          /\ OtherFunctionSameArguments(i, j) )
        => /\ UnitKeyOf[j] # UnitKeyOf[i]
           /\ UnitKeyOf[j] \notin DOMAIN cache'
           /\ BlobOf(UnitKeyOf[j]) \notin DOMAIN fs'
           /\ FunctionDir(UnitPlanOf[settings][j].dir)
              # FunctionDir(UnitPlanOf[settings][i].dir)
           /\ ~IsHit(cache', fs', UnitKeyOf[j])]_vars


-----------------------------------------------------------------------------
(* The convenience entry point cache()                                     *)
(*                                                                         *)
(* Here a path is absolute or relative to the working directory, fs maps   *)
(* full paths to nodes, cache maps a cache root to the index kept in       *)
(* {root}/metadata, and settings maps each PolarsCache object, named by    *)
(* the serial number of its construction, to its attributes.               *)

MaxGlobalSteps == 3

(* The segments of a path text: empty segments (doubled and trailing '/')  *)
(* are dropped by pathlib.                                                 *)
RECURSIVE Segments(_, _)
Segments(text, seg) ==
    IF text = <<>> THEN (IF seg = <<>> THEN <<>> ELSE <<seg>>)
    ELSE IF Head(text) = "/"
         THEN (IF seg = <<>> THEN <<>> ELSE <<seg>>) \o Segments(Tail(text), <<>>)
         ELSE Segments(Tail(text), Append(seg, Head(text)))

s_root == <<"/">>

(* pathlib.Path(text) *)
Path(text) ==
    (IF text # <<>> /\ Head(text) = "/" THEN <<s_root>> ELSE <<>>) \o Segments(text, <<>>)

(* Path.cwd() *)
Cwd == <<s_root, <<"w">>>>

s_polars_cache == <<".", "p", "o", "l", "a", "r", "s", "_", "c", "a", "c", "h", "e">>

(* decorator.py 51-78: PolarsCache.__init__ as cache() calls it (use_tmp   *)
(* False, hidden True): the attributes of the new object.                  *)
PolarsCache(dir, a) ==
    LET root == IF dir.none THEN Cwd \o <<s_polars_cache>> ELSE Path(dir.v)
    IN  [cache_dir |-> root,
         symlink_name |-> a.symlink_name,
         readable_dir_name |-> a.readable_dir_name,
         split_module_path |-> a.split_module_path,
         max_arg_length |-> a.max_arg_length,
         parquet_dir |-> root \o <<s_blobs>>,
         readable_dir |-> root \o <<a.readable_dir_name>>]

(* decorator.py 59, 74, 78: the directories __init__ makes. *)
ConstructedFs(f, self) ==
    mkdir(mkdir(mkdir(f, self.cache_dir).fs, self.parquet_dir).fs, self.readable_dir).fs

(* The path texts are compared as they are written. *)
NeedsNewCache_textual(g, objs, dir) ==
    \/ g.dummy
    \/ ~dir.none /\ objs[g.serial].cache_dir # <<dir.v>>

(* decorator.py 334-339: still the dummy, or a cache_dir that is not the   *)
(* current instance's.                                                     *)
NeedsNewCache(g, objs, dir) ==
    \/ g.dummy
    \/ ~dir.none /\ objs[g.serial].cache_dir # Path(dir.v)

(* The arguments of cache() besides cache_dir, with their defaults. *)
CacheArgs(dir_name, split) ==
    [readable_dir_name |-> dir_name, split_module_path |-> split,
     max_arg_length |-> DefaultMaxArgLength, symlink_name |-> NoneStr]

(* decorator.py 348-353: every argument of cache() but symlink_name is     *)
(* passed on as an override, its default value included.                   *)
OverridesOf(a) ==
    [readable_dir_name |-> SomeStr(a.readable_dir_name),
     split_module_path |-> SomeBool(a.split_module_path),
     max_arg_length |-> SomeInt(a.max_arg_length),
     symlink_name |-> a.symlink_name]

CacheDirs ==
    {NoneStr, SomeStr(<<"a">>), SomeStr(<<"a", "/">>), SomeStr(<<"b">>),
     SomeStr(<<"/", "w", "/">> \o s_polars_cache)}

CacheArgsGiven == {CacheArgs(n, b) : n \in {s_functions, s_my_cache}, b \in BOOLEAN}

GlobalInit ==
    /\ cache = <<>>
    /\ fs = <<>>
    /\ settings = <<>>
    /\ outcomeOf = <<>>
    /\ last = [op |-> "init", given |-> NoneStr, constructed |-> FALSE, serial |-> 0,
               use_dir_name |-> <<>>, use_split_module |-> FALSE]
    /\ steps = 0
    /\ _global_cache = _DummyCache
    /\ procs = <<>>

(* decorator.py 314-353: one use of cache(cache_dir=dir, ...). *)
UseCache(dir, a) ==
    /\ steps < MaxGlobalSteps
    /\ LET fresh == NeedsNewCache(_global_cache, settings, dir)
           serial == Len(settings) + 1
           self == PolarsCache(dir, a)
           current == IF fresh THEN self ELSE settings[_global_cache.serial]
           w == cache_polars(current, FuncF, OverridesOf(a))
       IN  /\ _global_cache' = IF fresh THEN [dummy |-> FALSE, serial |-> serial]
                               ELSE _global_cache
           /\ settings' = IF fresh THEN Append(settings, self) ELSE settings
           /\ fs' = IF fresh THEN ConstructedFs(fs, self) ELSE fs
           /\ cache' = IF fresh /\ self.cache_dir \notin DOMAIN cache
                       THEN With(cache, self.cache_dir, <<>>) ELSE cache
           /\ last' = [op |-> "cache", given |-> dir, constructed |-> fresh,
                       serial |-> _global_cache'.serial,
                       use_dir_name |-> w.use_dir_name,
                       use_split_module |-> w.use_split_module,
                       decorator |-> w]
    /\ steps' = steps + 1
    /\ UNCHANGED <<outcomeOf, procs>>

GlobalNext == \E dir \in CacheDirs, a \in CacheArgsGiven : UseCache(dir, a)

GlobalSpec == GlobalInit /\ [][GlobalNext]_vars

(* This step is a use of cache() with cache_dir dir. *)
StepIsUseCache(dir) == steps' = steps + 1 /\ last'.op = "cache" /\ last'.given = dir

(* The root directory of the current instance. *)
CurrentRoot == settings[_global_cache.serial].cache_dir

(* The directory a cache_dir text names: a trailing '/' changes nothing. *)
NamedRoot(dir) ==
    IF dir.v = <<"a", "/">> THEN <<<<"a">>>>
    ELSE IF Head(dir.v) = "/" THEN <<s_root, <<"w">>, s_polars_cache>>
    ELSE <<dir.v>>

(* C23: the first use of cache() constructs an instance; a later use that  *)
(* gives no cache_dir, or the directory of the current instance, keeps the *)
(* same instance as it is; a use that gives another directory replaces it  *)
(* by a newly constructed instance rooted there.                           *)
C23_GlobalInstance ==
    [][\A dir \in CacheDirs :
        StepIsUseCache(dir) =>
            IF _global_cache.dummy
            THEN /\ ~_global_cache'.dummy
                 /\ _global_cache'.serial \notin DOMAIN settings
                 /\ last'.constructed
            ELSE IF dir.none \/ NamedRoot(dir) = CurrentRoot
            THEN /\ _global_cache' = _global_cache
                 /\ settings' = settings
                 /\ ~last'.constructed
            ELSE /\ ~_global_cache'.dummy
                 /\ _global_cache'.serial \notin DOMAIN settings
                 /\ _global_cache'.serial # _global_cache.serial
                 /\ settings'[_global_cache'.serial].cache_dir = NamedRoot(dir)
                 /\ \A n \in DOMAIN settings : settings'[n] = settings[n]
                 /\ last'.constructed]_vars

(* cache(cache_dir="a/") was used while the instance rooted at a was       *)
(* current, and that instance was kept.                                    *)
C23_Witness ==
    /\ last.op = "cache" /\ last.given = SomeStr(<<"a", "/">>)
    /\ ~last.constructed
    /\ ~_global_cache.dummy
    /\ settings[_global_cache.serial].cache_dir = <<<<"a">>>>
    /\ steps > 1


-----------------------------------------------------------------------------
(* The readable root of a decorator                                        *)

(* The links that are in g and were not in f. *)
NewLinks(f, g) == {p \in DOMAIN g : g[p].type = "link" /\ p \notin DOMAIN f}

(* C24: a call that stores through a decorator made with                   *)
(* readable_dir_name=X creates its link under {cache_dir}/X/, whatever     *)
(* readable_dir_name the instance was constructed with.                    *)
C24_OverrideMovesLinks ==
    [][\A i \in UnitCallIds :
        ( /\ StepIsUnitCall(i) /\ UnitKeyOf[i] \notin DOMAIN cache /\ ~last'.raised
          /\ ~UnitCalls[i].o.readable_dir_name.none )
        => /\ NewLinks(fs, fs') # {}
           /\ \A p \in NewLinks(fs, fs') :
                 Prefix(p, 1) = cache_dir \o <<UnitCalls[i].o.readable_dir_name.v>>]_vars


-----------------------------------------------------------------------------
(* Concurrent wrapped calls on one cache instance                          *)
(*                                                                         *)
(* Two calls run at once, each at its own position in the wrapper.  A      *)
(* step is one access to the index, the file system or the instance        *)
(* attributes; the index itself is safe for concurrent access.  The blob   *)
(* is written in two steps, since write_parquet and sink_parquet create    *)
(* the file before they fill it.                                           *)

Pids == {1, 2}

(* The calls that run together, by their number in Calls: the same call    *)
(* twice, two keys with one readable path, and two decorators.             *)
RacePairs == {<<3, 3>>, <<3, 5>>, <<6, 7>>, <<3, 6>>}

(* A parquet file that is created and not yet filled. *)
PartialData == "partial"

NoRecord == [path |-> <<>>, is_lazy |-> FALSE]

(* A call that has not started. *)
Started(i, out) ==
    [call |-> i, out |-> out, pc |-> "lookup", record |-> NoRecord,
     result |-> NoValue, old |-> InitSettings, dir |-> <<>>, link |-> <<>>,
     made_link |-> FALSE, invoked |-> 0, raised |-> FALSE, error |-> "",
     value |-> NoValue]

(* The record of f(n=5) is in the index and its blob has been deleted. *)
StaleIndex ==
    With(<<>>, KeyOf[3], [path |-> _get_parquet_path(KeyOf[3]), is_lazy |-> FALSE])

RaceInit ==
    /\ cache \in {<<>>, StaleIndex}
    /\ fs = InitFs
    /\ settings = InitSettings
    /\ outcomeOf = <<>>
    /\ last = [op |-> "init", pid |-> 0, stale |-> cache # <<>>]
    /\ steps = 0
    /\ _global_cache = _DummyCache
    /\ \E pair \in RacePairs, o1 \in FrameOutcomes, o2 \in FrameOutcomes :
           procs = <<Started(pair[1], o1), Started(pair[2], o2)>>

(* The record is set before the blob is written. *)
NextStep_record_first(pc) ==
    CASE pc = "compute" -> "set"
      [] pc = "set" -> "save"
      [] pc = "save" -> "write"
      [] pc = "write" -> "save_old"
      [] pc = "save_old" -> "override"
      [] pc = "override" -> "mkdir"
      [] pc = "mkdir" -> "name"
      [] pc = "name" -> "test"
      [] pc = "test" -> "symlink"
      [] pc = "symlink" -> "restore"
      [] pc = "restore" -> "done"

(* decorator.py 186-223: the order of the statements of a miss that        *)
(* stores.                                                                 *)
NextStep(pc) ==
    CASE pc = "compute" -> "save"
      [] pc = "save" -> "write"
      [] pc = "write" -> "set"
      [] pc = "set" -> "save_old"
      [] pc = "save_old" -> "override"
      [] pc = "override" -> "mkdir"
      [] pc = "mkdir" -> "name"
      [] pc = "name" -> "test"
      [] pc = "test" -> "symlink"
      [] pc = "symlink" -> "restore"
      [] pc = "restore" -> "done"

At(p, pc) == procs[p].pc = pc
KeyAt(p) == KeyOf[procs[p].call]

(* The wrapper of p moves on with the changes ch to its locals. *)
Move(p, ch) ==
    /\ procs' = [procs EXCEPT ![p] = ch]
    /\ last' = [op |-> procs[p].pc, pid |-> p, stale |-> last.stale]
    /\ UNCHANGED <<outcomeOf, steps, _global_cache>>

(* The call ends by raising. *)
Fail(p, e) ==
    [procs[p] EXCEPT !.pc = "done", !.raised = TRUE, !.error = e,
                     !.value = ErrorValue(e)]

(* decorator.py 173: cache_key in self.cache *)
Lookup(p) ==
    /\ At(p, "lookup")
    /\ Move(p, [procs[p] EXCEPT !.pc = IF KeyAt(p) \in DOMAIN cache THEN "read"
                                        ELSE "compute"])
    /\ UNCHANGED <<cache, fs, settings>>

(* decorator.py 174-176: self.cache[cache_key], a KeyError when the record *)
(* is gone.                                                                *)
ReadRecord(p) ==
    /\ At(p, "read")
    /\ Move(p, IF KeyAt(p) \in DOMAIN cache
               THEN [procs[p] EXCEPT !.pc = "exists", !.record = cache[KeyAt(p)]]
               ELSE Fail(p, "KeyError"))
    /\ UNCHANGED <<cache, fs, settings>>

(* decorator.py 179: os.path.exists(parquet_path) *)
TestBlob(p) ==
    /\ At(p, "exists")
    /\ Move(p, [procs[p] EXCEPT !.pc = IF Exists(fs, procs[p].record.path) THEN "load"
                                        ELSE "delete"])
    /\ UNCHANGED <<cache, fs, settings>>

(* decorator.py 180: the blob is read; a file that is missing or not yet   *)
(* filled cannot be read.                                                  *)
Load(p) ==
    /\ At(p, "load")
    /\ LET path == procs[p].record.path
       IN  Move(p, IF path \notin DOMAIN fs THEN Fail(p, "FileNotFoundError")
                   ELSE IF fs[path].data = PartialData THEN Fail(p, "ComputeError")
                   ELSE [procs[p] EXCEPT
                           !.pc = "done",
                           !.value = _load_polars_result(fs, path,
                                                         procs[p].record.is_lazy)])
    /\ UNCHANGED <<cache, fs, settings>>

(* decorator.py 183: del self.cache[cache_key], a KeyError when the record *)
(* is gone.                                                                *)
Delete(p) ==
    /\ At(p, "delete")
    /\ Move(p, IF KeyAt(p) \in DOMAIN cache THEN [procs[p] EXCEPT !.pc = "compute"]
               ELSE Fail(p, "KeyError"))
    /\ cache' = IF KeyAt(p) \in DOMAIN cache THEN Without(cache, KeyAt(p)) ELSE cache
    /\ UNCHANGED <<fs, settings>>

(* decorator.py 186-189: the decorated function is called. *)
Compute(p) ==
    /\ At(p, "compute")
    /\ LET ran == Invoke(procs[p].out)
       IN  Move(p, IF ran.raised
                   THEN [Fail(p, ran.result.data) EXCEPT !.invoked = ran.invoked]
                   ELSE IF IsFrame(ran.result)
                   THEN [procs[p] EXCEPT !.pc = NextStep("compute"),
                                         !.invoked = ran.invoked,
                                         !.result = ran.result]
                   ELSE [procs[p] EXCEPT !.pc = "done", !.invoked = ran.invoked,
                                         !.result = ran.result,
                                         !.value = ran.result])
    /\ UNCHANGED <<cache, fs, settings>>

(* decorator.py 193, 103-106: the blob file is created, empty. *)
SaveBegin(p) ==
    /\ At(p, "save")
    /\ fs' = _save_polars_result(fs, [procs[p].result EXCEPT !.data = PartialData],
                                 KeyAt(p)).fs
    /\ Move(p, [procs[p] EXCEPT !.pc = NextStep("save")])
    /\ UNCHANGED <<cache, settings>>

(* decorator.py 193, 103-110: the blob file is filled; the path is kept. *)
SaveEnd(p) ==
    /\ At(p, "write")
    /\ LET saved == _save_polars_result(fs, procs[p].result, KeyAt(p))
       IN  /\ fs' = saved.fs
           /\ Move(p, [procs[p] EXCEPT !.pc = NextStep("write"),
                                       !.record = [path |-> saved.path,
                                                   is_lazy |-> procs[p].result.shape
                                                               = "LazyFrame"]])
    /\ UNCHANGED <<cache, settings>>

(* decorator.py 196: self.cache[cache_key] = {"path": ..., "is_lazy": ...} *)
SetRecord(p) ==
    /\ At(p, "set")
    /\ cache' = With(cache, KeyAt(p),
                     IF procs[p].record = NoRecord
                     THEN [path |-> _get_parquet_path(KeyAt(p)),
                           is_lazy |-> procs[p].result.shape = "LazyFrame"]
                     ELSE procs[p].record)
    /\ Move(p, [procs[p] EXCEPT !.pc = NextStep("set")])
    /\ UNCHANGED <<fs, settings>>

(* decorator.py 200-203: the attributes of the instance are read. *)
SaveOld(p) ==
    /\ At(p, "save_old")
    /\ Move(p, [procs[p] EXCEPT !.pc = NextStep("save_old"), !.old = settings])
    /\ UNCHANGED <<cache, fs, settings>>

(* decorator.py 205-208: the attributes are set to the decorator's. *)
Override(p) ==
    /\ At(p, "override")
    /\ settings' = Overridden(Calls[procs[p].call].w)
    /\ Move(p, [procs[p] EXCEPT !.pc = NextStep("override")])
    /\ UNCHANGED <<cache, fs>>

(* decorator.py 238-266: the directory is named from the attributes the    *)
(* instance has now, and made.                                             *)
MakeDir(p) ==
    /\ At(p, "mkdir")
    /\ LET c == Calls[procs[p].call]
           dir == final_readable_dir(settings, c.w.func, c.args, c.kwargs)
           made == mkdir(fs, dir)
       IN  /\ fs' = made.fs
           /\ Move(p, IF made.raised
                      THEN [procs[p] EXCEPT !.pc = "restore", !.raised = TRUE,
                                            !.error = "FileExistsError"]
                      ELSE [procs[p] EXCEPT !.pc = NextStep("mkdir"), !.dir = dir])
    /\ UNCHANGED <<cache, settings>>

(* decorator.py 270-274: the link is named from the attribute the instance *)
(* has now.                                                                *)
NameLink(p) ==
    /\ At(p, "name")
    /\ Move(p, IF settings.symlink_name.callable
               THEN [procs[p] EXCEPT !.pc = "restore", !.raised = TRUE,
                                     !.error = "TypeError"]
               ELSE [procs[p] EXCEPT !.pc = NextStep("name"),
                                     !.link = procs[p].dir \o <<symlink_name(settings)>>])
    /\ UNCHANGED <<cache, fs, settings>>

(* decorator.py 279: symlink_path.exists() *)
TestLink(p) ==
    /\ At(p, "test")
    /\ Move(p, [procs[p] EXCEPT !.pc = IF ~Exists(fs, procs[p].link)
                                        THEN NextStep("test") ELSE "restore"])
    /\ UNCHANGED <<cache, fs, settings>>

(* decorator.py 278-283: symlink_to, its failure swallowed. *)
MakeLink(p) ==
    /\ At(p, "symlink")
    /\ LET made == symlink_to(fs, procs[p].link,
                              relpath(_get_parquet_path(KeyAt(p)), procs[p].dir))
       IN  /\ fs' = made.fs
           /\ Move(p, [procs[p] EXCEPT !.pc = NextStep("symlink"),
                                       !.made_link = ~made.raised])
    /\ UNCHANGED <<cache, settings>>

(* decorator.py 215-223: the attributes read before are put back and the   *)
(* call returns its result, or raises what the link creation raised.       *)
Restore(p) ==
    /\ At(p, "restore")
    /\ settings' = procs[p].old
    /\ Move(p, [procs[p] EXCEPT !.pc = NextStep("restore"),
                                !.value = IF procs[p].raised
                                          THEN ErrorValue(procs[p].error)
                                          ELSE procs[p].result])
    /\ UNCHANGED <<cache, fs>>

RaceNext ==
    \E p \in Pids :
        \/ Lookup(p)
        \/ ReadRecord(p)
        \/ TestBlob(p)
        \/ Load(p)
        \/ Delete(p)
        \/ Compute(p)
        \/ SaveBegin(p)
        \/ SaveEnd(p)
        \/ SetRecord(p)
        \/ SaveOld(p)
        \/ Override(p)
        \/ MakeDir(p)
        \/ NameLink(p)
        \/ TestLink(p)
        \/ MakeLink(p)
        \/ Restore(p)

RaceSpec == RaceInit /\ [][RaceNext]_vars


-----------------------------------------------------------------------------
(* Properties of concurrent calls                                          *)

BothDone == \A p \in Pids : procs[p].pc = "done"
SameKey == KeyAt(1) = KeyAt(2)
Other(p) == 3 - p

(* C25: two concurrent calls with one cache key, started with no record    *)
(* in the index, both return without error, each its own result if it      *)
(* computed and the stored result of the other if it did not; when both    *)
(* have returned there is one blob file, blobs/{key}.parquet, holding a    *)
(* result one of them computed, and one record, which points to it.        *)
C25_DuplicateWork ==
    (BothDone /\ SameKey /\ ~last.stale) =>
        /\ \A p \in Pids :
             /\ ~procs[p].raised
             /\ procs[p].invoked = 1 => procs[p].value = procs[p].out.result
             /\ procs[p].invoked = 0 =>
                  /\ procs[Other(p)].invoked = 1
                  /\ procs[p].value.data = procs[Other(p)].out.result.data
        /\ BlobFiles(fs) = {BlobOf(KeyAt(1))}
        /\ fs[BlobOf(KeyAt(1))].type = "file"
        /\ fs[BlobOf(KeyAt(1))].data
           \in {procs[p].out.result.data : p \in {q \in Pids : procs[q].invoked = 1}}
        /\ DOMAIN cache = {KeyAt(1)}
        /\ cache[KeyAt(1)].path = BlobOf(KeyAt(1))

(* Both calls missed and both computed, with different results, and both   *)
(* have returned.                                                          *)
C25_Witness ==
    /\ BothDone /\ SameKey /\ ~last.stale
    /\ \A p \in Pids : procs[p].invoked = 1 /\ ~procs[p].raised
    /\ procs[1].out # procs[2].out
    /\ BlobFiles(fs) = {BlobOf(KeyAt(1))}


(* Both calls came to name their link, and named the same path. *)
SameLink == procs[1].link # <<>> /\ procs[1].link = procs[2].link

(* C26: when two concurrent calls project a link to the same readable      *)
(* path, neither fails, and when both have returned one link is at the     *)
(* path: exactly one of the calls created it, and it carries the target    *)
(* that call wrote, the relative path of its own blob.                     *)
C26_LinkRace ==
    (BothDone /\ SameLink) =>
        /\ \A p \in Pids : ~procs[p].raised /\ procs[p].value = procs[p].out.result
        /\ IsLinkAt(procs[1].link)
        /\ Cardinality({p \in Pids : procs[p].made_link}) = 1
        /\ \A p \in Pids :
             procs[p].made_link =>
                 /\ fs[procs[p].link].target
                    = [k \in 1..Len(procs[p].dir) |-> s_dotdot] \o BlobOf(KeyAt(p))
                 /\ Walk(procs[p].dir, fs[procs[p].link].target) = BlobOf(KeyAt(p))

(* Two calls with different keys both found the link path free and both    *)
(* went on to create the link; the link of the second to try was refused.  *)
C26_Witness ==
    /\ BothDone /\ SameLink
    /\ KeyAt(1) # KeyAt(2)
    /\ procs[2].made_link /\ ~procs[1].made_link
    /\ last.op = "restore" /\ last.pid = 2
    /\ fs[procs[1].link].target = relpath(BlobOf(KeyAt(2)), procs[2].dir)


-----------------------------------------------------------------------------
(* Order of the steps of a storing miss                                    *)

(* This step is the step named op of the call p. *)
StepOf(p, op) == last' # last /\ procs' # procs /\ procs[p].pc = op /\ procs'[p] # procs[p]

(* The blob of key k is on disk, written to its end. *)
BlobComplete(f, k) ==
    /\ BlobOf(k) \in DOMAIN f
    /\ f[BlobOf(k)].type = "file"
    /\ f[BlobOf(k)].data # PartialData

(* C30: in a run that starts with an empty index and has no deletion, the  *)
(* record of a call is set when the call has written its blob, the readable *)
(* directory and link are made when the record has been set, and every     *)
(* record in the index points to a blob file that exists.                  *)
C30_BlobRecordLink ==
    [][~last.stale =>
        /\ \A p \in Pids :
             /\ StepOf(p, "set") =>
                  /\ procs[p].record.path = BlobOf(KeyAt(p))
                  /\ BlobOf(KeyAt(p)) \in DOMAIN fs
                  /\ fs[BlobOf(KeyAt(p))].type = "file"
                  /\ cache'[KeyAt(p)].path = BlobOf(KeyAt(p))
             /\ (StepOf(p, "mkdir") \/ StepOf(p, "symlink")) =>
                  /\ KeyAt(p) \in DOMAIN cache
                  /\ BlobOf(KeyAt(p)) \in DOMAIN fs
        /\ \A k \in DOMAIN cache' :
             /\ cache'[k].path \in DOMAIN fs'
             /\ fs'[cache'[k].path].type = "file"]_vars

(* A call has written its blob and set its record, and has not come to     *)
(* the readable tree yet: the record and the blob are there, no link is.   *)
C30_Witness ==
    /\ ~last.stale
    /\ \E p \in Pids :
         /\ procs[p].pc = "save_old"
         /\ KeyAt(p) \in DOMAIN cache
         /\ BlobComplete(fs, KeyAt(p))
         /\ procs[Other(p)].pc = "lookup"
    /\ LinksOf(fs) = {}


-----------------------------------------------------------------------------
(* Lifetime of what a call stores                                          *)

(* The links and directories of f are in g as they were. *)
LinksAndDirsKept(f, g) ==
    \A p \in DOMAIN f : f[p].type \in {"link", "dir"} => (p \in DOMAIN g /\ g[p] = f[p])

(* C27, as stated: over every step other than clear() and a deletion made  *)
(* from outside, the record, the blob and the links that exist stay as     *)
(* they are: nothing of a key is created a second time.                    *)
C27_PersistUntilClear ==
    [][(last'.op \notin {"clear", "unlink"}) =>
        /\ \A k \in DOMAIN cache : SameAt(cache, cache', k)
        /\ \A p \in BlobFiles(fs) : SameAt(fs, fs', p)
        /\ LinksAndDirsKept(fs, fs')]_vars

(* C27, amended: the metadata store may drop a record at any time, which   *)
(* removes nothing else.  A call leaves the records and blobs of all other *)
(* keys, and every link and directory, as they are; it removes no blob     *)
(* file; when the record of its own key and the blob are there it creates  *)
(* and changes nothing, and otherwise, returning a frame, it writes the    *)
(* blob and the record of its key again.                                   *)
C27_PersistAcrossCalls ==
    [][/\ last'.op = "evict" => (fs' = fs /\ DOMAIN cache' \subseteq DOMAIN cache)
       /\ \A i \in CallIds :
            StepIsCall(i) =>
                /\ \A k \in DOMAIN cache \ {KeyOf[i]} : SameAt(cache, cache', k)
                /\ \A p \in BlobFiles(fs) \ {BlobOf(KeyOf[i])} : SameAt(fs, fs', p)
                /\ BlobFiles(fs) \subseteq BlobFiles(fs')
                /\ LinksAndDirsKept(fs, fs')
                /\ (KeyOf[i] \in DOMAIN cache /\ BlobOf(KeyOf[i]) \in DOMAIN fs)
                   => (cache' = cache /\ fs' = fs /\ last'.invoked = 0)
                /\ (~(KeyOf[i] \in DOMAIN cache /\ BlobOf(KeyOf[i]) \in DOMAIN fs)
                    /\ ReturnedFrame(last'.computed))
                   => /\ KeyOf[i] \in DOMAIN cache'
                      /\ BlobOf(KeyOf[i]) \in DOMAIN fs'
                      /\ fs'[BlobOf(KeyOf[i])].data = last'.computed.result.data]_vars

(* A call stored its result beside the record and the blob of another key, *)
(* which are still there.                                                  *)
C27_Witness ==
    /\ LastIsCall /\ last.invoked = 1 /\ ReturnedFrame(last.computed)
    /\ Cardinality(DOMAIN cache) = 2
    /\ Cardinality(BlobFiles(fs)) = 2
    /\ LastKey \in DOMAIN cache

-----------------------------------------------------------------------------
(* Two keys with one readable path                                         *)

(* Calls i and j have different keys and the same readable link path, and  *)
(* the link at that path is the one call i made.                           *)
LinkTakenBy(i, j) ==
    /\ KeyOf[i] # KeyOf[j]
    /\ PlanOf[i].link = PlanOf[j].link
    /\ IsLinkAt(PlanOf[i].link)
    /\ fs[PlanOf[i].link].target = PlanOf[i].relative_blob

(* C28: a call whose readable path holds the link of a call with another   *)
(* key leaves that link and that call's blob as they are; when it computes *)
(* a frame it stores its own blob and record and returns its own result;   *)
(* when it is a hit it returns what is in its own blob, the result it      *)
(* stored, and not the blob the link points to.                            *)
C28_AliasedPath ==
    [][\A i, j \in CallIds :
        (StepIsCall(j) /\ LinkTakenBy(i, j))
        => /\ fs'[PlanOf[i].link] = fs[PlanOf[i].link]
           /\ SameAt(fs, fs', BlobOf(KeyOf[i]))
           /\ SameAt(cache, cache', KeyOf[i])
           /\ (last'.invoked = 1 /\ ReturnedFrame(last'.computed))
              => /\ ~last'.raised
                 /\ last'.value = last'.computed.result
                 /\ BlobOf(KeyOf[j]) \in DOMAIN fs'
                 /\ fs'[BlobOf(KeyOf[j])].data = last'.computed.result.data
                 /\ KeyOf[j] \in DOMAIN cache'
                 /\ cache'[KeyOf[j]].path = BlobOf(KeyOf[j])
           /\ last'.invoked = 0
              => /\ cache[KeyOf[j]].path = BlobOf(KeyOf[j])
                 /\ last'.value.data = fs[BlobOf(KeyOf[j])].data
                 /\ last'.value.data = outcomeOf[j].result.data]_vars

(* f(n="a/bd") is a hit and returns its own rows while the link at the     *)
(* path it shares with f(n="a/bc") points to the blob of f(n="a/bc"),      *)
(* which holds other rows.                                                 *)
C28_Witness ==
    /\ LastIsCall /\ last.call = 7 /\ last.invoked = 0
    /\ PlanOf[6].link = PlanOf[7].link
    /\ IsLinkAt(PlanOf[7].link)
    /\ ResolveLink(fs, PlanOf[7].link) = BlobOf(KeyOf[6])
    /\ BlobOf(KeyOf[6]) \in DOMAIN fs
    /\ last.value.data # fs[BlobOf(KeyOf[6])].data
    /\ last.value.data = fs[BlobOf(KeyOf[7])].data

-----------------------------------------------------------------------------
(* Eviction                                                                *)

(* C29: a call whose record is not in the index while its blob file is on  *)
(* disk invokes the computation once; when that returns a frame, the call  *)
(* returns it without raising, the blob file holds the new rows, no blob   *)
(* file is added, and the record is in the index again.                    *)
C29_EvictedRecord ==
    [][\A i \in CallIds :
        ( /\ StepIsCall(i)
          /\ KeyOf[i] \notin DOMAIN cache
          /\ BlobOf(KeyOf[i]) \in DOMAIN fs )
        => /\ last'.invoked = 1
           /\ ReturnedFrame(last'.computed)
              => /\ ~last'.raised
                 /\ last'.value = last'.computed.result
                 /\ BlobFiles(fs') = BlobFiles(fs)
                 /\ fs'[BlobOf(KeyOf[i])] = FileNode(last'.computed.result.data)
                 /\ cache'[KeyOf[i]]
                    = [path |-> BlobOf(KeyOf[i]),
                       is_lazy |-> last'.computed.result.shape = "LazyFrame"]]_vars

(* The record of a stored call was evicted, and the call made next         *)
(* computed a LazyFrame and left it in the one blob file of its key.       *)
C29_Witness ==
    /\ LastIsCall /\ last.after = "evict" /\ ~last.present /\ last.prior = "stored"
    /\ last.invoked = 1 /\ ReturnedFrame(last.computed)
    /\ last.computed.result.shape = "LazyFrame"
    /\ BlobFiles(fs) = {BlobOf(LastKey)}
    /\ fs[BlobOf(LastKey)].data = last.computed.result.data
    /\ LastKey \in DOMAIN cache


-----------------------------------------------------------------------------
(* The index under concurrent calls                                        *)

(* C31: no concurrent call fails because of the index: two calls of one    *)
(* key that both find a record whose blob is missing both complete as a    *)
(* miss, and a record that disappears between the membership test and the  *)
(* read of the record is taken as a miss; no call ends in a KeyError.      *)
C31_NoIndexFailure == \A p \in Pids : procs[p].error # "KeyError"


-----------------------------------------------------------------------------
(* The instance attributes under concurrent calls                          *)

(* C32: when the calls of two wrappers with different overrides run at     *)
(* once on one instance, the readable directory and the link of each call  *)
(* are those of its own decorator's split_module_path, max_arg_length and  *)
(* symlink_name, in every interleaving.                                    *)
C32_OwnSettings ==
    \A p \in Pids :
        LET c == Calls[procs[p].call]
            own == Overridden(c.w)
        IN  /\ procs[p].dir # <<>>
               => procs[p].dir = final_readable_dir(own, c.w.func, c.args, c.kwargs)
            /\ procs[p].link # <<>>
               => procs[p].link = symlink_path(own, c.w.func, c.args, c.kwargs)

(* C33: when the concurrent calls of wrappers with different overrides     *)
(* have all returned, readable_dir_name, split_module_path, max_arg_length *)
(* and symlink_name of the instance are the values given at construction,  *)
(* in every interleaving of the save, override and restore steps.          *)
C33_SettingsRestored == BothDone => settings = InitSettings


-----------------------------------------------------------------------------
(* The instance attributes across one call                                 *)

(* C34: without concurrency every wrapped call leaves readable_dir_name,   *)
(* split_module_path, max_arg_length and symlink_name of the instance as   *)
(* they were before the call, on every exit: a hit, a result that is       *)
(* passed through, a stored miss, and a failure raised while the readable  *)
(* link is created.                                                        *)
C34_SettingsKept ==
    [][(\E i \in CallIds : StepIsCall(i)) => settings' = settings]_vars

(* A call through the decorator with overrides has failed on the readable  *)
(* directory after it stored its frame.                                    *)
C34_Witness ==
    /\ last.op = "call" /\ last.call = 6
    /\ last.invoked = 1 /\ last.raised
    /\ KeyOf[6] \in DOMAIN cache
    /\ Overridden(Calls[6].w) # settings


-----------------------------------------------------------------------------
(* What a hit leaves alone                                                 *)

(* C35: a hit is read-only: the blob files, the index and the readable     *)
(* tree are after it as they were before it; a call that has no link at    *)
(* its readable path (its link creation failed when it was stored, or it   *)
(* was stored through a decorator with another readable path) still has    *)
(* none after the hit.                                                     *)
C35_HitReadOnly ==
    [][\A i \in UnitCallIds :
        (StepIsUnitCall(i) /\ IsHit(cache, fs, UnitKeyOf[i]))
        => /\ cache' = cache
           /\ fs' = fs
           /\ ~Exists(fs, last'.path) => ~Exists(fs', last'.path)]_vars

(* f(n=5) was stored through the decorator without overrides and then hit *)
(* through the flat decorator: there is no link at the flat path.          *)
C35_Witness ==
    /\ last.op = "call" /\ last.case = 4 /\ ~last.raised
    /\ last.path = UnitPlanOf[settings][4].link
    /\ ~Exists(fs, last.path)
    /\ Exists(fs, UnitPlanOf[settings][3].link)
    /\ IsHit(cache, fs, UnitKeyOf[4])

(* f(n=5) was stored while the link name was a callable, so that no link   *)
(* was made, and then hit: there is still no link in the readable tree.    *)
HitAfterFailedLink ==
    /\ last.op = "call" /\ last.case = 3 /\ ~last.raised
    /\ settings.symlink_name.callable
    /\ IsHit(cache, fs, UnitKeyOf[3])
    /\ \A p \in DOMAIN fs : fs[p].type # "link"


-----------------------------------------------------------------------------
(* Records and blobs of one key                                            *)

(* The step is a call of key k that stored a frame. *)
StoredNow(k) ==
    \E i \in CallIds :
        /\ StepIsCall(i) /\ KeyOf[i] = k
        /\ last'.invoked = 1 /\ ReturnedFrame(last'.computed)

(* C36: through any sequence of wrapped calls and clear(), every record    *)
(* under key k has the path blobs/k.parquet and the is_lazy flag of the    *)
(* most recent result stored for k (a record is set by a call that stores  *)
(* and is otherwise left as it was), and every file in the blobs directory *)
(* is the one file blobs/k.parquet of a key.                               *)
C36_RecordOfLatestResult ==
    [][/\ \A k \in DOMAIN cache' :
            /\ cache'[k].path = BlobOf(k)
            /\ IF StoredNow(k)
               THEN cache'[k].is_lazy = (last'.computed.result.shape = "LazyFrame")
               ELSE k \in DOMAIN cache /\ cache'[k] = cache[k]
       /\ BlobFiles(fs') \subseteq {BlobOf(k) : k \in Keys}]_vars

(* The record of f(n=5) was set again, after its blob or its record was    *)
(* lost, for a lazy frame.                                                 *)
C36_Witness ==
    /\ last.op = "call" /\ last.call = 3 /\ last.prior = "stored"
    /\ last.after \in {"unlink", "evict"}
    /\ last.invoked = 1 /\ last.computed = Returns(LazyFrame("d2"))
    /\ cache[KeyOf[3]] = [path |-> BlobOf(KeyOf[3]), is_lazy |-> TRUE]
    /\ fs[BlobOf(KeyOf[3])].data = "d2"


-----------------------------------------------------------------------------
(* Wrappers made through cache() and the instance they work on             *)

(* The wrappers that are made from the decorators cache() returns. *)
MaxWrappers == 1

(* decorator.py 164-227: the decorator that cache() has just returned is   *)
(* applied to f; the wrapper closes over the instance the decorator was    *)
(* made on and over the use_* values.                                      *)
Decorate ==
    /\ last.op = "cache"
    /\ Len(outcomeOf) < MaxWrappers
    /\ outcomeOf' = Append(outcomeOf, [serial |-> last.serial, w |-> last.decorator])
    /\ last' = [last EXCEPT !.op = "decorate"]
    /\ UNCHANGED <<cache, fs, settings, steps, _global_cache, procs>>

(* The wrapper works on the instance that is current when it is called. *)
InstanceOf_current(g, wr) == g.serial

(* decorator.py 168-221: self in the wrapper is the instance the wrapper   *)
(* was made on, here by its serial number.                                 *)
InstanceOf(g, wr) == wr.serial

(* The files below root, by their paths from root. *)
Under(f, root) ==
    [p \in {SubSeq(q, Len(root) + 1, Len(q)) : q \in {x \in DOMAIN f : IsPrefix(root, x)}}
        |-> f[root \o p]]

(* The file system f with g in the place of what is below root. *)
Embed(f, root, g) ==
    [q \in {x \in DOMAIN f : ~IsPrefix(root, x)} \cup {root \o p : p \in DOMAIN g} |->
        IF IsPrefix(root, q) THEN g[SubSeq(q, Len(root) + 1, Len(q))] ELSE f[q]]

(* decorator.py 238-278 on instance self: the readable paths start at      *)
(* self.readable_dir, the directory named when self was constructed.       *)
PlanAt(self, w, args, kwargs, cache_key) ==
    LET plan == ReadablePlan(Overridden(w), w.func, args, kwargs, cache_key)
    IN  [plan EXCEPT !.dir = <<self.readable_dir_name>> \o Tail(plan.dir),
                     !.link = <<self.readable_dir_name>> \o Tail(plan.link)]

(* decorator.py 168-223: wrapper n is called as f(n=5). *)
GlobalCall(n, out) ==
    /\ n \in DOMAIN outcomeOf
    /\ LET wr == outcomeOf[n]
           serial == InstanceOf(_global_cache, wr)
           self == settings[serial]
           root == self.cache_dir
           c == Calls[3]
           r == wrapper(cache[root], Under(fs, root), self, KeyOf[3],
                        PlanAt(self, wr.w, c.args, c.kwargs, KeyOf[3]), out)
       IN  /\ cache' = [cache EXCEPT ![root] = r.cache]
           /\ fs' = Embed(fs, root, r.fs)
           /\ last' = [op |-> "call", given |-> NoneStr, constructed |-> FALSE,
                       serial |-> _global_cache.serial,
                       use_dir_name |-> wr.w.use_dir_name,
                       use_split_module |-> wr.w.use_split_module,
                       wrapper |-> n, invoked |-> r.invoked, raised |-> r.raised,
                       value |-> r.value]
           /\ settings' = [settings EXCEPT ![serial] =
                              [self EXCEPT
                                 !.readable_dir_name = r.settings.readable_dir_name,
                                 !.split_module_path = r.settings.split_module_path,
                                 !.max_arg_length = r.settings.max_arg_length,
                                 !.symlink_name = r.settings.symlink_name]]
    /\ UNCHANGED <<outcomeOf, steps, _global_cache, procs>>

(* The directories given to cache() while wrappers are in use. *)
WrapperDirs == {NoneStr, SomeStr(<<"a">>), SomeStr(<<"b">>)}

WrapperNext ==
    \/ \E dir \in WrapperDirs, a \in CacheArgsGiven : UseCache(dir, a)
    \/ Decorate
    \/ \E n \in 1..MaxWrappers, out \in FrameOutcomes : GlobalCall(n, out)

WrapperSpec == GlobalInit /\ [][WrapperNext]_vars

(* The instance wrapper n was made on. *)
MadeOn(n) == settings[outcomeOf[n].serial]

(* The blob of f(n=5) in the blobs directory of instance self. *)
BlobAt(self) == self.parquet_dir \o <<KeyOf[3] \o s_dot_parquet>>

(* C37: a wrapper reads and writes where the instance it was made on       *)
(* does, also after cache() with another cache_dir has replaced the        *)
(* process-wide instance: a call of the wrapper changes nothing outside    *)
(* that instance's root, a result stored there is a hit, and a miss puts   *)
(* blob, record and links into that instance's index, blobs directory and  *)
(* readable directory.                                                     *)
C37_WrapperKeepsInstance ==
    [][\A n \in DOMAIN outcomeOf :
        (last'.op = "call" /\ last'.wrapper = n) =>
            LET self == MadeOn(n)
                root == self.cache_dir
                stored == KeyOf[3] \in DOMAIN cache[root] /\ Exists(fs, BlobAt(self))
            IN  /\ \A r \in DOMAIN cache \ {root} : cache'[r] = cache[r]
                /\ \A q \in DOMAIN fs \cup DOMAIN fs' :
                       ~IsPrefix(root, q)
                       => q \in DOMAIN fs /\ q \in DOMAIN fs' /\ fs'[q] = fs[q]
                /\ settings' = settings
                /\ stored => /\ last'.invoked = 0 /\ IsFrame(last'.value)
                             /\ fs' = fs /\ cache' = cache
                /\ ~stored => /\ last'.invoked = 1
                              /\ Exists(fs', BlobAt(self))
                              /\ KeyOf[3] \in DOMAIN cache'[root]
                              /\ \A q \in NewLinks(fs, fs') : IsPrefix(self.readable_dir, q)]_vars

(* The wrapper made on the first instance is called after cache() has put  *)
(* an instance with another root in its place, and the call is a hit.      *)
C37_Witness ==
    /\ last.op = "call" /\ last.wrapper = 1
    /\ last.invoked = 0 /\ ~last.raised /\ IsFrame(last.value)
    /\ _global_cache.serial # outcomeOf[1].serial
    /\ settings[_global_cache.serial].cache_dir # MadeOn(1).cache_dir
    /\ Exists(fs, BlobAt(MadeOn(1)))
    /\ ~Exists(fs, BlobAt(settings[_global_cache.serial]))

====
